---- MODULE Spec2Model ----
(***************************************************************************)
(* The signaling server of voip-esim-framework/index.js: SIPServer (the    *)
(* registrar, the call table, external routing, the media relay table)     *)
(* composed with VoIPESIMProvider (the provisioning listeners), as the      *)
(* program's entry point composes them.                                     *)
(*                                                                          *)
(* One action is one callback of the event loop run to completion: the      *)
(* arrival of a datagram or stream read on the server sockets, the arrival  *)
(* of a datagram on a call-scoped external socket, the completion callback  *)
(* of an external send, and the passing of time.  After a callback the      *)
(* state shows the event it handled (last) and what it sent (out); Return   *)
(* is the callback returning to the event loop.                             *)
(***************************************************************************)
EXTENDS Integers, Sequences, FiniteSets

(***************************************************************************)
(* Bound of the model: the number of callbacks the event loop runs.         *)
(***************************************************************************)
MaxEvents == 4

\* The number of profiles minted.
MaxProfiles == 2

\* The addresses of the pool (250 in IPAddressPool) and the sessions a run
\* of the bridge creates.
PoolLength == 3
MaxSessions == 3

(***************************************************************************)
(* Program constants.                                                       *)
(***************************************************************************)
CONFIG_SIP_SERVER_URL == "0.0.0.0"
DefaultExpires == 3600
MsPerSecond == 1000
StandardSipPort == 5060
FirstPhoneNumberSuffix == 1000

(***************************************************************************)
(* Values.  A header that is absent reads as undefined in the program.      *)
(***************************************************************************)
None == [none |-> TRUE]
Absent == "<absent>"

Uri(user, host) == [user |-> user, host |-> host]
Aors == {Uri("alice", CONFIG_SIP_SERVER_URL),
         Uri("provision", CONFIG_SIP_SERVER_URL),
         Uri("bob", "example.org")}
CallIds == {"c1", "c2"}

\* The domains a server is configured with: the one of CONFIG, which the
\* entry point passes, and another one.  The addresses the registrations map
\* is read at are the AORs and the provisioning address of each domain.
OtherDomain == "example.org"
Domains == {CONFIG_SIP_SERVER_URL, OtherDomain}
Addresses == Aors \cup {Uri("provision", d) : d \in Domains}

\* The text of a body.  A session description is written with its lines
\* separated by " / " for the line breaks: SdpAudio is an offer and SdpAnswer
\* an answer, each with an audio media line followed by its connection line;
\* SdpSessionLevel is an answer whose connection line is at session level,
\* before the media line; SdpVideo has no audio media line.
SdpAudio == "v=0 / m=audio 4000 / c=IN IP4 10.0.0.1"
SdpAnswer == "v=0 / m=audio 5000 / c=IN IP4 10.9.9.9"
SdpSessionLevel == "v=0 / c=IN IP4 10.9.9.9 / m=audio 5000"
SdpVideo == "v=0 / m=video 6000 / c=IN IP4 10.0.0.1"
Sdps == {SdpAudio, SdpAnswer, SdpSessionLevel, SdpVideo}
Marker == "PROVISION-ESIM"
Bodies == {"", SdpAudio, SdpVideo, Marker}
AnswerBodies == {"", SdpAnswer, SdpSessionLevel, SdpVideo}

\* body.includes('PROVISION-ESIM')
IncludesMarker(body) == body = Marker

\* body.indexOf('v=0') and body.substring(sdpStart), or '' when there is none
SdpOf(body) == IF body \in Sdps THEN body ELSE ""

\* sdp.split('\r\n'): a line as what parseSDP reads of it, its start and its
\* second (m=) or third (c=) word
SdpLine(start, port, address) ==
    [start |-> start, port |-> port, address |-> address]

Lines(sdp) ==
    CASE sdp = SdpAudio ->
            <<SdpLine("v=", 0, Absent), SdpLine("m=audio", 4000, Absent),
              SdpLine("c=", 0, "10.0.0.1")>>
      [] sdp = SdpAnswer ->
            <<SdpLine("v=", 0, Absent), SdpLine("m=audio", 5000, Absent),
              SdpLine("c=", 0, "10.9.9.9")>>
      [] sdp = SdpSessionLevel ->
            <<SdpLine("v=", 0, Absent), SdpLine("c=", 0, "10.9.9.9"),
              SdpLine("m=audio", 5000, Absent)>>
      [] sdp = SdpVideo ->
            <<SdpLine("v=", 0, Absent), SdpLine("m=video", 6000, Absent),
              SdpLine("c=", 0, "10.0.0.1")>>
      [] OTHER -> <<>>

\* the loop of parseSDP over the lines: an m=audio line starts the media
\* section and sets the port, a c= line inside the media section sets the
\* address; media stays null without an m=audio line and the address stays
\* undefined without a c= line after it
RECURSIVE ParseLines(_, _, _)
ParseLines(lines, media, mediaSection) ==
    IF lines = <<>> THEN media
    ELSE LET line == Head(lines)
         IN  IF line.start = "m=audio"
             THEN ParseLines(Tail(lines),
                             [type |-> "audio", port |-> line.port,
                              address |-> Absent],
                             TRUE)
             ELSE IF mediaSection /\ line.start = "c="
             THEN ParseLines(Tail(lines),
                             [media EXCEPT !.address = line.address],
                             mediaSection)
             ELSE ParseLines(Tail(lines), media, mediaSection)

\* parseSDP(sdp)
ParseSDP(sdp) == [media |-> ParseLines(Lines(sdp), None, FALSE)]

\* parseInt of the Expires header values the model sends
ParseInt(str) == IF str = "1" THEN 1 ELSE 0

\* expires.toString() of the values expires takes in the model
IntToString(n) == IF n = 0 THEN "0" ELSE IF n = 1 THEN "1" ELSE "3600"

\* to.includes(`@${CONFIG.SIP_SERVER_URL}`): over the URIs of the model, whose
\* hosts do not contain one another, the substring test is a test of the host
IncludesServerUrl(uri) == uri.host = CONFIG_SIP_SERVER_URL

\* to.includes('provision'): over the URIs of the model only the user part can
\* hold the word
IncludesProvision(uri) == uri.user = "provision"

(***************************************************************************)
(* Transport descriptors.  Each is an object, and === compares objects.    *)
(* A dispatch allocates one descriptor for the message it hands on; alloc   *)
(* tells a descriptor allocated by the dispatch that is running ("now")     *)
(* from one an earlier dispatch allocated and stored ("earlier"), and from  *)
(* the descriptor handleExternalCall makes for the far end ("external").    *)
(***************************************************************************)
\* The peers messages arrive from: a UDP endpoint and an established TCP
\* connection, each with the Contact URI its user agent writes.  In the
\* traffic of the model the user agent on the TCP connection is the one that
\* registers and the one at the UDP endpoint the one that calls; either
\* sends requests within a call, other requests and responses.
Peers ==
    {[protocol |-> "udp", address |-> "10.0.0.1", port |-> StandardSipPort,
      socket |-> Absent, contact |-> "sip:dev@10.0.0.1"],
     [protocol |-> "tcp", address |-> Absent, port |-> 0,
      socket |-> "conn1", contact |-> "sip:dev@conn1"]}

\* the descriptor the 'message' listener of the UDP server builds
UdpTransport(address, port) ==
    [alloc |-> "now", protocol |-> "udp", address |-> address, port |-> port,
     socket |-> Absent]

\* the descriptor the 'data' listener of a TCP connection builds
TcpTransport(socket) ==
    [alloc |-> "now", protocol |-> "tcp", address |-> Absent, port |-> 0,
     socket |-> socket]

ArrivalTransport(src) ==
    IF src.protocol = "udp" THEN UdpTransport(src.address, src.port)
                            ELSE TcpTransport(src.socket)

\* transport === other, for the descriptor of the running dispatch and one
\* the state holds: the same object only if the running dispatch allocated
\* both
SameObject(a, b) == a.alloc = "now" /\ b.alloc = "now"

\* where sendMessage delivers for a descriptor: udpServer.send(port, address)
\* or socket.write; nowhere when the descriptor is of neither shape
Destination(t) ==
    IF t.protocol = "udp"
    THEN [sock |-> "udpServer", address |-> t.address, port |-> t.port]
    ELSE IF t.protocol = "tcp" /\ t.socket # Absent
         THEN [sock |-> t.socket, address |-> Absent, port |-> 0]
         ELSE None

\* the peer a source is reached at
DestinationOf(src) == Destination(ArrivalTransport(src))

Registrants == {p \in Peers : p.protocol = "tcp"}
Callers == {p \in Peers : p.protocol = "udp"}

(***************************************************************************)
(* State.                                                                   *)
(***************************************************************************)
VARIABLES
    domain,               \* options.domain
    allowOutboundCalls,
    now,                  \* Date.now()
    registrations,        \* Map aor -> {contact, expires, transport}
    calls,                \* Map call-id -> call object (a reference)
    heap,                 \* the call objects
    mediaRelays,          \* Map call-id -> relay (a reference)
    relays,               \* the relay objects ever made, with their sockets
    extSockets,           \* the call-scoped sockets and their listeners
    pending,              \* external sends whose callback has not run
    nextPhoneNumberSuffix,
    phoneToProfile,
    profiles,             \* ESIMProvisioner.profiles: Map iccid -> profile
    minted,               \* what createProfile did in the last callback
    out,                  \* what the last callback sent, in order
    last,                 \* the event the last callback handled
    events,               \* the number of callbacks run
    answered,             \* history: the Call-IDs the callee has answered 200
    message,              \* SIPMessage: the options handed to create
    data,                 \* SIPMessage: what create returned
    parsed,               \* SIPMessage: what parse returned
    assigned,             \* IPAddressPool.assigned: Map identifier -> address
    available,            \* IPAddressPool.available
    clients,              \* MobileDataBridge.clients: Map imsi -> client
    sessions,             \* DataPacketHandler.sessions: Map id -> session
    sockets               \* the control connections, with their clientId

codecVars == <<message, data, parsed>>
bridgeVars == <<assigned, available, clients, sessions, sockets>>

vars == <<domain, allowOutboundCalls, now, registrations, calls, heap,
          mediaRelays, relays, extSockets, pending, nextPhoneNumberSuffix,
          phoneToProfile, profiles, minted, out, last, events, answered,
          codecVars, bridgeVars>>

\* the variables of the SIP server and of the provider
serverVars ==
    <<domain, allowOutboundCalls, now, registrations, calls, heap,
      mediaRelays, relays, extSockets, pending, nextPhoneNumberSuffix,
      phoneToProfile, profiles, minted, out, answered>>

\* every call object is made by a callback
HeapSize == MaxEvents + 1

\* The part of the state the handlers work on, as one value.
Cur ==
    [registrations |-> registrations, calls |-> calls, heap |-> heap,
     mediaRelays |-> mediaRelays, relays |-> relays,
     extSockets |-> extSockets, pending |-> pending,
     nextPhoneNumberSuffix |-> nextPhoneNumberSuffix,
     phoneToProfile |-> phoneToProfile, profiles |-> profiles,
     minted |-> <<>>, entropy |-> <<>>, out |-> <<>>]



(***************************************************************************)
(* Messages.  A parsed message carries the fields the handlers read; a      *)
(* sent message is recorded with the place sendMessage delivered it to.     *)
(***************************************************************************)
Via(protocol, sentBy) == [protocol |-> protocol, sentBy |-> sentBy]

\* the From URI and the Via a peer's user agent writes
FromOf(src) ==
    Uri("dev", IF src.protocol = "udp" THEN src.address ELSE src.socket)
ViaOf(src) ==
    Via(src.protocol, IF src.protocol = "udp" THEN src.address ELSE src.socket)

\* the third token of the first line of a request (message.version)
SipVersion == "SIP/2.0"

Request(method, src, to, callId, contact, expires, body) ==
    [type |-> "request", method |-> method, statusCode |-> 0, uri |-> to,
     to |-> to, from |-> FromOf(src), callId |-> callId, contact |-> contact,
     expires |-> expires, body |-> body, via |-> ViaOf(src),
     version |-> SipVersion]

ResponseMsg(statusCode, via, to, from, callId, body) ==
    [type |-> "response", method |-> Absent, statusCode |-> statusCode,
     uri |-> to, to |-> to, from |-> from, callId |-> callId,
     contact |-> Absent, expires |-> Absent, body |-> body, via |-> via,
     version |-> Absent]

NoMessage ==
    [type |-> Absent, method |-> Absent, statusCode |-> 0,
     uri |-> Uri(Absent, Absent), to |-> Uri(Absent, Absent),
     from |-> Uri(Absent, Absent), callId |-> Absent, contact |-> Absent,
     expires |-> Absent, body |-> "", via |-> Via(Absent, Absent),
     version |-> Absent]

\* sendMessage(message, transport): udpServer.send for a UDP descriptor,
\* socket.write for a TCP one, nothing otherwise
SendMessage(s, msg, t) ==
    IF Destination(t) = None THEN s
    ELSE [s EXCEPT !.out = Append(@, [msg EXCEPT !.dst = Destination(t)])]

\* the headers sendResponse copies from the request, then the additional ones
SendResponseWith(s, request, t, statusCode, contact, expires, allow, supported, body) ==
    SendMessage(s,
        [type |-> "response", method |-> Absent, statusCode |-> statusCode,
         uri |-> Uri(Absent, Absent), via |-> request.via,
         contact |-> contact, expires |-> expires, allow |-> allow,
         supported |-> supported,
         callId |-> request.callId, body |-> body, dst |-> None],
        t)

\* sendResponse without Allow and Supported among the additional headers
SendResponse(s, request, t, statusCode, contact, expires, body) ==
    SendResponseWith(s, request, t, statusCode, contact, expires, Absent,
                     Absent, body)

\* a forwarded request that keeps the Via and the Contact it arrived with
ForwardedAsReceived(method, uri, request, protocol, body) ==
    [type |-> "request", method |-> method, statusCode |-> 0, uri |-> uri,
     via |-> request.via, contact |-> request.contact,
     expires |-> request.expires, allow |-> Absent, supported |-> Absent,
     callId |-> request.callId, body |-> body, dst |-> None]

\* SIPMessage.create of a forwarded request: the received headers with via and
\* contact replaced (the random branch parameter is left out)
Forwarded(method, uri, request, protocol, body) ==
    [type |-> "request", method |-> method, statusCode |-> 0, uri |-> uri,
     via |-> Via(protocol, domain), contact |-> domain,
     expires |-> request.expires, allow |-> Absent, supported |-> Absent,
     callId |-> request.callId, body |-> body, dst |-> None]

(***************************************************************************)
(* The call objects.  calls maps a Call-ID to a place of the heap, 0 when   *)
(* the map has no entry.  An object no map and no listener refers to is     *)
(* dropped from the heap.                                                   *)
(***************************************************************************)
HeapPlaces == 1..HeapSize

Alloc(h) ==
    CHOOSE i \in HeapPlaces : h[i] = None /\ \A j \in 1..(i - 1) : h[j] # None

HasCall(s, callId) == s.calls[callId] # 0
CallOf(s, callId) == s.heap[s.calls[callId]]

Reachable(s) ==
    {s.calls[c] : c \in CallIds} \cup
    {s.extSockets[k].call : k \in 1..Len(s.extSockets)}

Collect(s) ==
    [s EXCEPT !.heap = [i \in HeapPlaces |->
                          IF i \in Reachable(s) THEN s.heap[i] ELSE None]]

\* the place calls.set(callId, call) puts a new object at: a free one, the
\* object the entry held before being free once nothing else refers to it
AllocFor(s, callId) == Alloc(Collect([s EXCEPT !.calls[callId] = 0]).heap)

\* The dispatch has ended: the descriptors it allocated are, for every later
\* dispatch, descriptors of an earlier one.
Aged(t) == [t EXCEPT !.alloc = IF @ = "now" THEN "earlier" ELSE @]

AgedCall(c) ==
    IF c = None THEN None
    ELSE [c EXCEPT !.fromTransport = Aged(@), !.toTransport = Aged(@)]

(***************************************************************************)
(* SIPServer.setupMediaRelay and parseSDP                                   *)
(***************************************************************************)
\* A relay is recorded with the media parsed from the two descriptions, which
\* its listeners close over, and with the descriptions themselves (offer,
\* answer), which the program does not keep with the relay.

\* setupMediaRelay without the test of the parsed media
SetupMediaRelayUnchecked(s, callId, call) ==
    LET fromSDP == ParseSDP(call.fromSDP)
        toSDP == ParseSDP(call.toSDP)
    IN  [s EXCEPT
            !.relays = Append(@, [callId |-> callId,
                                  fromPeer |-> fromSDP.media,
                                  toPeer |-> toSDP.media,
                                  offer |-> call.fromSDP,
                                  answer |-> call.toSDP,
                                  closes |-> 0]),
            !.mediaRelays[callId] = Len(s.relays) + 1]

SetupMediaRelay(s, callId, call) ==
    LET fromSDP == ParseSDP(call.fromSDP)
        toSDP == ParseSDP(call.toSDP)
    IN  IF fromSDP.media = None \/ toSDP.media = None THEN s
        ELSE [s EXCEPT
                !.relays = Append(@, [callId |-> callId,
                                      fromPeer |-> fromSDP.media,
                                      toPeer |-> toSDP.media,
                                      offer |-> call.fromSDP,
                                      answer |-> call.toSDP,
                                      closes |-> 0]),
                !.mediaRelays[callId] = Len(s.relays) + 1]

\* socket.send(msg, port, address) of a udp4 socket: without an address the
\* datagram goes to the local host
Localhost == "127.0.0.1"
SendAddress(address) == IF address = Absent THEN Localhost ELSE address

\* The 'message' listeners of a relay's sockets: a datagram on fromSocket is
\* sent with toSocket to the port and address parsed from call.toSDP, one on
\* toSocket with fromSocket to those parsed from call.fromSDP.
RelayListener(s, r, socket, msg) ==
    LET relay == s.relays[r]
        sender == IF socket = "fromSocket" THEN "toSocket" ELSE "fromSocket"
        peer == IF socket = "fromSocket" THEN relay.toPeer ELSE relay.fromPeer
    IN  [s EXCEPT !.out = Append(@,
            [type |-> "datagram", payload |-> msg,
             dst |-> [sock |-> <<r, sender>>,
                      address |-> SendAddress(peer.address),
                      port |-> peer.port]])]

(***************************************************************************)
(* VoIPESIMProvider.provisionNewESIM and handleProvisioningRequest          *)
(***************************************************************************)
\* What one call of createProfile meets: the outcome of its random draws and
\* whether fs.writeFileSync throws.
Randoms == {1, 2}
Draws == [rnd : Randoms, fails : BOOLEAN]

\* generateIccid() and generateImsi() for an outcome of Math.random
Iccid(rnd) == IF rnd = 1 THEN "8988-01-1" ELSE "8988-01-2"
Imsi(rnd) == IF rnd = 1 THEN "310-260-1" ELSE "310-260-2"
Iccids == {Iccid(rnd) : rnd \in Randoms}

\* Phone numbers are strings of digits, written as the sequence of the
\* digits: the prefix followed by the decimal digits of the suffix.
PhoneNumberPrefix == <<9, 3, 5>>

RECURSIVE Decimal(_)
Decimal(n) == IF n < 10 THEN <<n>> ELSE Decimal(n \div 10) \o <<n % 10>>

\* this.phoneNumberPrefix + suffix
PhoneNumber(suffix) == PhoneNumberPrefix \o Decimal(suffix)

\* str.substring(start)
Substring(str, start) ==
    IF start >= Len(str) THEN <<>> ELSE SubSeq(str, start + 1, Len(str))

\* parseInt of a string of digits; NaN for the empty string.  NaN is written
\* as a number below every suffix: the one use made of it, suffix > maxSuffix,
\* is false for it as it is for NaN.
NaN == -1
RECURSIVE DigitsValue(_)
DigitsValue(str) ==
    IF str = <<>> THEN 0
    ELSE DigitsValue(SubSeq(str, 1, Len(str) - 1)) * 10 + str[Len(str)]
ParseIntDigits(str) == IF str = <<>> THEN NaN ELSE DigitsValue(str)

\* loadPhoneNumberMappings() for a file with these phone numbers as keys:
\* the map is the file's, and the next suffix is one more than the greatest
\* suffix read, 1000 if none is greater.  (The variant leaves out the + 1.)
MinLoadedSuffix == 1000
MaxSuffix(mappings) ==
    LET suffixes == {ParseIntDigits(Substring(phone, Len(PhoneNumberPrefix))) :
                        phone \in mappings} \ {NaN}
        greater == {n \in suffixes : n > MinLoadedSuffix}
    IN  IF greater = {} THEN MinLoadedSuffix
        ELSE CHOOSE n \in greater : \A k \in greater : k <= n
LoadPhoneNumberMappingsNoStep(mappings) ==
    [phoneToProfile |-> mappings, nextPhoneNumberSuffix |-> MaxSuffix(mappings)]
LoadPhoneNumberMappings(mappings) ==
    [phoneToProfile |-> mappings,
     nextPhoneNumberSuffix |-> MaxSuffix(mappings) + 1]

\* ESIMProvisioner.createProfile(msisdn): the profile is put in the map, then
\* written to its file
CreateProfile(s, msisdn) ==
    LET draw == Head(s.entropy)
        profile == [iccid |-> Iccid(draw.rnd), imsi |-> Imsi(draw.rnd),
                    msisdn |-> msisdn]
    IN  [s EXCEPT !.entropy = Tail(@),
                  !.profiles[profile.iccid] = profile,
                  !.minted = Append(@, [profile |-> profile,
                                        thrown |-> draw.fails])]

\* the createProfile that has just run threw
Thrown(s) == s.minted[Len(s.minted)].thrown

\* provisionNewESIM(): the phone number takes the next suffix; a throw of
\* createProfile leaves the phone mapping as it is
ProvisionNewESIM(s) ==
    LET phoneNumber == PhoneNumber(s.nextPhoneNumberSuffix)
        s1 == CreateProfile([s EXCEPT !.nextPhoneNumberSuffix = @ + 1],
                            phoneNumber)
    IN  IF Thrown(s1) THEN s1
        ELSE [s1 EXCEPT !.phoneToProfile = @ \cup {phoneNumber}]

\* the body of the 200: the fields of the profile minted
ResponseBody(s) ==
    LET profile == s.minted[Len(s.minted)].profile
    IN  [text |-> "ESIM-PROVISIONED", phoneNumber |-> profile.msisdn,
         iccid |-> profile.iccid, imsi |-> profile.imsi]

\* handleProvisioningRequest(message, transport): 400 for a body without the
\* marker; otherwise 200 with the profile minted, 500 if minting threw.
\* (HandleProvisioningRequestCounting takes the phone number before it tests
\* the body.)
HandleProvisioningRequestCounting(s, m, t) ==
    IF ~IncludesMarker(m.body)
    THEN SendResponse([s EXCEPT !.nextPhoneNumberSuffix = @ + 1], m, t, 400,
                      Absent, Absent, "")
    ELSE LET s1 == ProvisionNewESIM(s)
         IN  IF Thrown(s1)
             THEN SendResponse(s1, m, t, 500, Absent, Absent, "")
             ELSE SendResponse(s1, m, t, 200, Absent, Absent,
                               ResponseBody(s1))

HandleProvisioningRequest(s, m, t) ==
    IF ~IncludesMarker(m.body)
    THEN SendResponse(s, m, t, 400, Absent, Absent, "")
    ELSE LET s1 == ProvisionNewESIM(s)
         IN  IF Thrown(s1)
             THEN SendResponse(s1, m, t, 500, Absent, Absent, "")
             ELSE SendResponse(s1, m, t, 200, Absent, Absent,
                               ResponseBody(s1))

\* VoIPESIMProvider.handleSIPMessage, the listener of the server's 'message'
ProviderHandleSIPMessage(s, m, t) ==
    IF m.type = "request" /\ m.method = "INVITE" /\ IncludesServerUrl(m.uri)
       /\ m.body # "" /\ IncludesMarker(m.body)
    THEN HandleProvisioningRequest(s, m, t)
    ELSE s

(***************************************************************************)
(* SIPServer.handleRegister                                                 *)
(***************************************************************************)
\* message.headers.expires ? parseInt(message.headers.expires) : 3600
ExpiresSeconds(m) ==
    IF m.expires # Absent THEN ParseInt(m.expires) ELSE DefaultExpires

\* handleRegister that leaves a binding the AOR already has as it is
HandleRegisterKeepsBinding(s, m, t) ==
    LET aor == m.to
        contact == m.contact
        expires == ExpiresSeconds(m)
        s1 == IF expires > 0 /\ contact # Absent
              THEN IF s.registrations[aor] # None THEN s
                   ELSE [s EXCEPT !.registrations[aor] =
                            [contact |-> contact,
                             expires |-> now + expires * MsPerSecond,
                             transport |-> t]]
              ELSE [s EXCEPT !.registrations[aor] = None]
    IN  SendResponse(s1, m, t, 200, m.contact, IntToString(expires), "")

\* handleRegister without registrations.delete(aor)
HandleRegisterNeverRemoves(s, m, t) ==
    LET aor == m.to
        contact == m.contact
        expires == ExpiresSeconds(m)
        s1 == IF expires > 0 /\ contact # Absent
              THEN [s EXCEPT !.registrations[aor] =
                        [contact |-> contact,
                         expires |-> now + expires * MsPerSecond,
                         transport |-> t]]
              ELSE s
    IN  SendResponse(s1, m, t, 200, m.contact, IntToString(expires), "")

\* handleRegister that, removing a binding, also drops the calls to the AOR
HandleRegisterEndsCalls(s, m, t) ==
    LET aor == m.to
        contact == m.contact
        expires == ExpiresSeconds(m)
        s1 == IF expires > 0 /\ contact # Absent
              THEN [s EXCEPT !.registrations[aor] =
                        [contact |-> contact,
                         expires |-> now + expires * MsPerSecond,
                         transport |-> t]]
              ELSE [s EXCEPT !.registrations[aor] = None,
                             !.calls = [c \in CallIds |->
                                 IF @[c] # 0 /\ s.heap[@[c]].to = aor
                                 THEN 0 ELSE @[c]]]
    IN  SendResponse(s1, m, t, 200, m.contact, IntToString(expires), "")

HandleRegister(s, m, t) ==
    LET aor == m.to
        contact == m.contact
        expires == ExpiresSeconds(m)
        s1 == IF expires > 0 /\ contact # Absent
              THEN [s EXCEPT !.registrations[aor] =
                        [contact |-> contact,
                         expires |-> now + expires * MsPerSecond,
                         transport |-> t]]
              ELSE [s EXCEPT !.registrations[aor] = None]
    IN  SendResponse(s1, m, t, 200, m.contact, IntToString(expires), "")

(***************************************************************************)
(* SIPServer.handleExternalCall                                             *)
(***************************************************************************)
HandleExternalCall(s, m, t, to, from, callId) ==
    LET toDomain == to.host
        sdp == SdpOf(m.body)
        k == Len(s.extSockets) + 1
        s1 == SendResponse(s, m, t, 100, Absent, Absent, "")
        externalInvite ==
            [type |-> "request", method |-> "INVITE", statusCode |-> 0,
             uri |-> to, via |-> Via("UDP", domain), contact |-> domain,
             expires |-> Absent, callId |-> callId, body |-> sdp,
             dst |-> [sock |-> "external", address |-> toDomain,
                      port |-> StandardSipPort]]
        externalTransport ==
            [alloc |-> "external", protocol |-> "udp", address |-> toDomain,
             port |-> StandardSipPort, socket |-> "external"]
        call == [id |-> callId, from |-> from, to |-> to,
                 fromTransport |-> t, toTransport |-> externalTransport,
                 fromSDP |-> sdp, toSDP |-> "", state |-> "trying",
                 isExternal |-> TRUE]
        i == AllocFor(s1, callId)
    IN  [s1 EXCEPT !.heap[i] = call,
                   !.calls[callId] = i,
                   !.extSockets = Append(@, [callId |-> callId, call |-> i,
                                             via |-> m.via, to |-> m.to,
                                             transport |-> t]),
                   !.pending = @ \cup {k},
                   !.out = Append(@, externalInvite)]

(***************************************************************************)
(* SIPServer.handleInvite                                                   *)
(***************************************************************************)
HandleInvite(s, m, t) ==
    LET callId == m.callId
        to == m.to
        from == m.from
        toRegistration == s.registrations[to]
    IN  IF IncludesServerUrl(to) /\ IncludesProvision(to)
        THEN HandleProvisioningRequest(s, m, t)
        ELSE IF toRegistration = None /\ allowOutboundCalls
                /\ ~IncludesServerUrl(to)
        THEN HandleExternalCall(s, m, t, to, from, callId)
        ELSE IF toRegistration = None
        THEN SendResponse(s, m, t, 404, Absent, Absent, "")
        ELSE
            LET sdp == SdpOf(m.body)
                call == [id |-> callId, from |-> from, to |-> to,
                         fromTransport |-> t,
                         toTransport |-> toRegistration.transport,
                         fromSDP |-> sdp, toSDP |-> "", state |-> "ringing",
                         isExternal |-> FALSE]
                i == AllocFor(s, callId)
                s1 == [s EXCEPT !.heap[i] = call, !.calls[callId] = i]
                s2 == SendResponse(s1, m, t, 100, Absent, Absent, "")
            IN  SendMessage(s2,
                    Forwarded("INVITE", to, m,
                              toRegistration.transport.protocol, m.body),
                    toRegistration.transport)


(***************************************************************************)
(* SIPServer.handleBye, handleAck, handleCancel, handleOptions              *)
(***************************************************************************)
\* transport === call.fromTransport ? call.toTransport : call.fromTransport
OtherTransport(t, call) ==
    IF SameObject(t, call.fromTransport) THEN call.toTransport
                                         ELSE call.fromTransport

\* transport === call.fromTransport ? call.to : call.from
OtherUri(t, call) ==
    IF SameObject(t, call.fromTransport) THEN call.to ELSE call.from

\* mediaRelay.close(): closing a socket that is closed already throws
CloseThrows(relay) == relay.closes > 0

\* handleBye without mediaRelays.delete(callId): the relay is closed and its
\* entry stays
HandleByeKeepsRelayEntry(s, m, t) ==
    LET callId == m.callId
    IN  IF ~HasCall(s, callId)
        THEN SendResponse(s, m, t, 481, Absent, Absent, "")
        ELSE
            LET call == CallOf(s, callId)
                otherTransport == OtherTransport(t, call)
                forwardedBye == Forwarded("BYE", OtherUri(t, call), m,
                                          otherTransport.protocol, "")
                s1 == SendMessage(s, forwardedBye, otherTransport)
                s2 == SendResponse(s1, m, t, 200, Absent, Absent, "")
                s3 == [s2 EXCEPT !.calls[callId] = 0]
                r == s3.mediaRelays[callId]
            IN  IF r = 0 THEN s3
                ELSE IF CloseThrows(s3.relays[r]) THEN s3
                ELSE [s3 EXCEPT !.relays[r].closes = @ + 1]

\* handleBye that answers 200 and deletes the entry without looking for the
\* call
HandleByeWithoutLookup(s, m, t) ==
    LET callId == m.callId
        s1 == SendResponse(s, m, t, 200, Absent, Absent, "")
    IN  [s1 EXCEPT !.calls[callId] = 0]

HandleBye(s, m, t) ==
    LET callId == m.callId
    IN  IF ~HasCall(s, callId)
        THEN SendResponse(s, m, t, 481, Absent, Absent, "")
        ELSE
            LET call == CallOf(s, callId)
                otherTransport == OtherTransport(t, call)
                forwardedBye == Forwarded("BYE", OtherUri(t, call), m,
                                          otherTransport.protocol, "")
                s1 == SendMessage(s, forwardedBye, otherTransport)
                s2 == SendResponse(s1, m, t, 200, Absent, Absent, "")
                s3 == [s2 EXCEPT !.calls[callId] = 0]
                r == s3.mediaRelays[callId]
            IN  IF r = 0 THEN s3
                ELSE IF CloseThrows(s3.relays[r]) THEN s3
                ELSE [s3 EXCEPT !.relays[r].closes = @ + 1,
                                !.mediaRelays[callId] = 0]

\* handleAck that answers an ACK for an unknown Call-ID with 481, the way
\* handleBye and handleCancel answer theirs
HandleAckAnswersUnknown(s, m, t) ==
    LET callId == m.callId
    IN  IF ~HasCall(s, callId)
        THEN SendResponse(s, m, t, 481, Absent, Absent, "")
        ELSE
            LET call == CallOf(s, callId)
                otherTransport == OtherTransport(t, call)
                forwardedAck == Forwarded("ACK", OtherUri(t, call), m,
                                          otherTransport.protocol, m.body)
                s1 == SendMessage(s, forwardedAck, otherTransport)
            IN  IF call.state = "accepted" /\ call.fromSDP # ""
                   /\ call.toSDP # ""
                THEN SetupMediaRelay(s1, callId, call)
                ELSE s1

HandleAck(s, m, t) ==
    LET callId == m.callId
    IN  IF ~HasCall(s, callId) THEN s
        ELSE
            LET call == CallOf(s, callId)
                otherTransport == OtherTransport(t, call)
                forwardedAck == Forwarded("ACK", OtherUri(t, call), m,
                                          otherTransport.protocol, m.body)
                s1 == SendMessage(s, forwardedAck, otherTransport)
            IN  IF call.state = "accepted" /\ call.fromSDP # ""
                   /\ call.toSDP # ""
                THEN SetupMediaRelay(s1, callId, call)
                ELSE s1

HandleCancel(s, m, t) ==
    LET callId == m.callId
    IN  IF ~HasCall(s, callId)
        THEN SendResponse(s, m, t, 481, Absent, Absent, "")
        ELSE
            LET call == CallOf(s, callId)
                otherTransport == OtherTransport(t, call)
                forwardedCancel == Forwarded("CANCEL", OtherUri(t, call), m,
                                             otherTransport.protocol, "")
                s1 == SendMessage(s, forwardedCancel, otherTransport)
                s2 == SendResponse(s1, m, t, 200, Absent, Absent, "")
            IN  [s2 EXCEPT !.calls[callId] = 0]

\* handleOptions(message, transport): a 200 with the Allow and Supported
\* headers.  (HandleOptionsBare sends the 200 without them.)
AllowedMethods == "INVITE, ACK, CANCEL, BYE, REGISTER, OPTIONS"
SupportedExtensions == "path"
HandleOptionsBare(s, m, t) == SendResponse(s, m, t, 200, Absent, Absent, "")
HandleOptions(s, m, t) ==
    SendResponseWith(s, m, t, 200, Absent, Absent, AllowedMethods,
                     SupportedExtensions, "")

\* SIPServer.close(): the server sockets are closed, then every relay of the
\* relay table, and the table is cleared.  A close() that throws leaves the
\* loop and the table as they are.
ServerClose(s) ==
    LET inTable == {s.mediaRelays[c] : c \in CallIds} \ {0}
    IN  IF \E r \in inTable : CloseThrows(s.relays[r]) THEN s
        ELSE [s EXCEPT
                !.relays = [r \in DOMAIN s.relays |->
                              IF r \in inTable
                              THEN [s.relays[r] EXCEPT !.closes = @ + 1]
                              ELSE s.relays[r]],
                !.mediaRelays = [c \in CallIds |-> 0]]

(***************************************************************************)
(* SIPServer.handleSIPMessage: the 'message' listeners first, then the      *)
(* handler of the request's method; a response is handed to no handler.     *)
(***************************************************************************)
HandleSIPMessage(s, m, t) ==
    LET s1 == ProviderHandleSIPMessage(s, m, t)
    IN  IF m.type # "request" THEN s1
        ELSE CASE m.method = "REGISTER" -> HandleRegister(s1, m, t)
               [] m.method = "INVITE" -> HandleInvite(s1, m, t)
               [] m.method = "BYE" -> HandleBye(s1, m, t)
               [] m.method = "ACK" -> HandleAck(s1, m, t)
               [] m.method = "CANCEL" -> HandleCancel(s1, m, t)
               [] m.method = "OPTIONS" -> HandleOptions(s1, m, t)
               [] OTHER -> SendResponse(s1, m, t, 405, Absent, Absent, "")

(***************************************************************************)
(* The 'message' listener of a call-scoped socket (handleExternalCall) and  *)
(* the callback of its send.                                                *)
(***************************************************************************)
ExternalListener(s, k, response) ==
    LET l == s.extSockets[k]
        call == s.heap[l.call]
    IN  IF ~(response.type = "response" /\ response.callId = l.callId) THEN s
        ELSE
            LET s1 == SendMessage(s,
                        [type |-> "response", method |-> Absent,
                         statusCode |-> response.statusCode,
                         uri |-> Uri(Absent, Absent), via |-> response.via,
                         contact |-> response.contact,
                         expires |-> response.expires,
                         allow |-> Absent, supported |-> Absent,
                         callId |-> response.callId, body |-> response.body,
                         dst |-> None],
                        l.transport)
            IN  IF response.statusCode # 200 THEN s1
                ELSE
                    LET s2 == [s1 EXCEPT !.heap[l.call].state = "accepted"]
                    IN  IF response.body = "" THEN s2
                        ELSE
                            LET s3 == [s2 EXCEPT !.heap[l.call].toSDP =
                                                    response.body]
                            IN  IF s3.heap[l.call].fromSDP # ""
                                THEN SetupMediaRelay(s3, l.callId,
                                                     s3.heap[l.call])
                                ELSE s3

\* the callback of the send without calls.delete(callId)
SendCallbackKeepsCall(s, k, err) ==
    LET l == s.extSockets[k]
        s1 == [s EXCEPT !.pending = @ \ {k}]
    IN  IF ~err THEN s1
        ELSE SendResponse(s1, [via |-> l.via, callId |-> l.callId],
                          l.transport, 500, Absent, Absent, "")

SendCallback(s, k, err) ==
    LET l == s.extSockets[k]
        s1 == [s EXCEPT !.pending = @ \ {k}]
    IN  IF ~err THEN s1
        ELSE [SendResponse(s1, [via |-> l.via, callId |-> l.callId],
                           l.transport, 500, Absent, Absent, "")
                EXCEPT !.calls[l.callId] = 0]

(***************************************************************************)
(* SIPMessage.create and SIPMessage.parse.  A text is the sequence of its   *)
(* characters; a run of characters that holds none of space, colon, CR and  *)
(* LF is written as one element.                                            *)
(***************************************************************************)
SP == " "
COLON == ":"
CR == "CR"
LF == "LF"
CRLF == <<CR, LF>>
Undefined == <<"undefined">>

StartsWith(str, prefix) ==
    Len(str) >= Len(prefix) /\ SubSeq(str, 1, Len(prefix)) = prefix

\* str.split(separator)
RECURSIVE Split(_, _)
Split(str, separator) ==
    IF str = <<>> THEN << <<>> >>
    ELSE IF StartsWith(str, separator)
    THEN << <<>> >> \o Split(SubSeq(str, Len(separator) + 1, Len(str)),
                            separator)
    ELSE LET rest == Split(Tail(str), separator)
         IN  << <<Head(str)>> \o Head(rest) >> \o Tail(rest)

\* parts.join(separator)
RECURSIVE Join(_, _)
Join(parts, separator) ==
    IF parts = <<>> THEN <<>>
    ELSE IF Len(parts) = 1 THEN parts[1]
    ELSE parts[1] \o separator \o Join(Tail(parts), separator)

\* parts[i], counted from 1
At(parts, i) == IF i <= Len(parts) THEN parts[i] ELSE Undefined

\* `${statusCode}` and parseInt of it, for the codes of the model
StatusText(statusCode) == IF statusCode = 200 THEN "200" ELSE "404"
ParseStatus(str) ==
    IF str = <<"200">> THEN 200 ELSE IF str = <<"404">> THEN 404 ELSE NaN

\* name.toLowerCase()
ToLowerCase(name) == IF name = <<"Contact">> THEN <<"contact">> ELSE name

\* SIPMessage.create(options)
Create(options) ==
    LET firstLine ==
            IF options.type = "request"
            THEN options.method \o <<SP>> \o options.uri \o <<SP, SipVersion>>
                 \o CRLF
            ELSE <<SipVersion, SP, StatusText(options.statusCode), SP>>
                 \o options.reasonPhrase \o CRLF
        headerLines ==
            [i \in DOMAIN options.headers |->
                options.headers[i].name \o <<COLON, SP>>
                \o options.headers[i].value \o CRLF]
    IN  firstLine \o Join(headerLines, <<>>) \o CRLF \o options.body

\* the index of the line the header loop of parse stops at
RECURSIVE HeadersEnd(_, _)
HeadersEnd(lines, i) ==
    IF i > Len(lines) \/ lines[i] = <<>> THEN i ELSE HeadersEnd(lines, i + 1)

\* message.headers after the loop: the last value written under each name
ParsedHeaders(lines, end) ==
    LET pair(i) ==
            LET headerParts == Split(lines[i], <<COLON, SP>>)
            IN  [name |-> ToLowerCase(headerParts[1]),
                 value |-> Join(Tail(headerParts), <<COLON, SP>>)]
    IN  {pair(i) : i \in {j \in 2..(end - 1) :
            \A k \in (j + 1)..(end - 1) : pair(k).name # pair(j).name}}

\* SIPMessage.parse(data)
Parse(text) ==
    LET lines == Split(text, CRLF)
        requestLine == Split(lines[1], <<SP>>)
        end == HeadersEnd(lines, 2)
        body == IF end < Len(lines)
                THEN Join(SubSeq(lines, end + 1, Len(lines)), CRLF)
                ELSE Undefined
    IN  IF requestLine[1] = <<SipVersion>>
        THEN [type |-> "response",
              statusCode |-> IF Len(requestLine) >= 2
                             THEN ParseStatus(requestLine[2]) ELSE NaN,
              reasonPhrase |-> At(requestLine, 3),
              headers |-> ParsedHeaders(lines, end), body |-> body]
        ELSE [type |-> "request", method |-> requestLine[1],
              uri |-> At(requestLine, 2), version |-> At(requestLine, 3),
              headers |-> ParsedHeaders(lines, end), body |-> body]

\* The well-formed messages create and parse are run on.
FirstLines ==
    {[type |-> "request", method |-> <<"INVITE">>,
      uri |-> <<"sip", COLON, "bob@example.org">>],
     [type |-> "response", statusCode |-> 200, reasonPhrase |-> <<"OK">>],
     [type |-> "response", statusCode |-> 404,
      reasonPhrase |-> <<"Not", SP, "Found">>]}

HeaderLists ==
    {<<>>,
     <<[name |-> <<"call-id">>, value |-> <<"c1">>]>>,
     <<[name |-> <<"via">>, value |-> <<"SIP/2.0/UDP", SP, "10.0.0.1">>],
       [name |-> <<"Contact">>,
        value |-> <<"<sip", COLON, "dev@10.0.0.1>">>]>>,
     <<[name |-> <<"subject">>, value |-> <<"re", COLON, SP, "call">>],
       [name |-> <<"content-length">>, value |-> <<"0">>]>>}

MessageBodies ==
    {<<>>, <<"v=0">>, <<"v=0", CR, LF, "m=audio", SP, "4000">>,
     <<"a", CR, LF, CR, LF, "b">>}

Messages ==
    {[type |-> f.type,
      method |-> IF f.type = "request" THEN f.method ELSE Undefined,
      uri |-> IF f.type = "request" THEN f.uri ELSE Undefined,
      statusCode |-> IF f.type = "response" THEN f.statusCode ELSE NaN,
      reasonPhrase |-> IF f.type = "response" THEN f.reasonPhrase
                       ELSE Undefined,
      headers |-> h, body |-> b] :
        f \in FirstLines, h \in HeaderLists, b \in MessageBodies}

\* No message is being converted.
NoData == <<>>
CodecIdle == message = None /\ data = NoData /\ parsed = None

(***************************************************************************)
(* IPAddressPool (MobileDataBridge.js).  An address is the sequence of its  *)
(* dotted parts.                                                            *)
(***************************************************************************)
BaseSubnet == <<10, 8, 0>>
FirstOctet == 2
Identifiers == {"imsi1", "imsi2", "imsi3", "imsi4"}
NoAddress == <<>>

\* `${this.baseSubnet}.${lastOctet}`
IpAddress(lastOctet) == BaseSubnet \o <<lastOctet>>

\* parseInt(ip.split('.')[3])
LastOctet(ip) == IF Len(ip) >= 4 THEN ip[4] ELSE NaN

\* array.sort((a, b) => a - b)
RECURSIVE SortNumbers(_)
SortNumbers(array) ==
    IF array = <<>> THEN <<>>
    ELSE LET least == CHOOSE i \in DOMAIN array :
                          \A j \in DOMAIN array : array[i] <= array[j]
         IN  <<array[least]>> \o
             SortNumbers(SubSeq(array, 1, least - 1) \o
                         SubSeq(array, least + 1, Len(array)))

\* The pool as one value, and what a call returns or throws.
Pool == [assigned |-> assigned, available |-> available]

\* assign(identifier) that takes a new address also for an identifier that
\* holds one
AssignAnew(pool, identifier) ==
    IF pool.available = <<>>
    THEN [pool |-> pool, returned |-> NoAddress, thrown |-> TRUE]
    ELSE LET lastOctet == Head(pool.available)
             ipAddress == IpAddress(lastOctet)
         IN  [pool |-> [assigned |-> [pool.assigned EXCEPT
                                        ![identifier] = ipAddress],
                        available |-> Tail(pool.available)],
              returned |-> ipAddress, thrown |-> FALSE]

\* assign(identifier)
Assign(pool, identifier) ==
    IF pool.assigned[identifier] # NoAddress
    THEN [pool |-> pool, returned |-> pool.assigned[identifier],
          thrown |-> FALSE]
    ELSE IF pool.available = <<>>
    THEN [pool |-> pool, returned |-> NoAddress, thrown |-> TRUE]
    ELSE LET lastOctet == Head(pool.available)
             ipAddress == IpAddress(lastOctet)
         IN  [pool |-> [assigned |-> [pool.assigned EXCEPT
                                        ![identifier] = ipAddress],
                        available |-> Tail(pool.available)],
              returned |-> ipAddress, thrown |-> FALSE]

\* release(identifier)
Release(pool, identifier) ==
    IF pool.assigned[identifier] = NoAddress
    THEN [pool |-> pool, returned |-> FALSE]
    ELSE LET ip == pool.assigned[identifier]
             lastOctet == LastOctet(ip)
         IN  [pool |-> [assigned |-> [pool.assigned EXCEPT
                                        ![identifier] = NoAddress],
                        available |-> SortNumbers(Append(pool.available,
                                                         lastOctet))],
              returned |-> TRUE]

(***************************************************************************)
(* MobileDataBridge: the control connections, handleClientConnect and       *)
(* handleClientDisconnect, and DataPacketHandler's sessions.                *)
(***************************************************************************)
\* the IMSIs that send control messages, the one without a profile last
Imsis == {"imsi1", "imsi2", "imsi9"}
ProfiledImsis == Imsis \cap Identifiers
Sockets == {"socket1", "socket2"}
SessionIds == 1..MaxSessions
NoClientId == "null"

\* a connection not made yet
NoSocket == [state |-> "none", clientId |-> NoClientId]
MessageTypes == {"connect", "disconnect", "keepalive", "invalid"}

\* The bridge as one value.
Bridge ==
    [pool |-> Pool, clients |-> clients, sessions |-> sessions,
     sockets |-> sockets]

\* socket.end(...): a socket that is not destroyed is ended, and closes later
End(b, socket) ==
    IF b.sockets[socket].state = "closed" THEN b
    ELSE [b EXCEPT !.sockets[socket].state = "ended"]

\* crypto.randomBytes(8).toString('hex'): an id the map does not hold
UnusedIds(b) == {k \in SessionIds : b.sessions[k] = None}

\* handleClientConnect(message, socket), the session id being drawn as id
HandleClientConnect(b, imsi, socket, id) ==
    IF imsi \notin ProfiledImsis THEN End(b, socket)
    ELSE LET a == Assign(b.pool, imsi)
         IN  IF a.thrown THEN End(b, socket)
             ELSE [b EXCEPT
                     !.pool = a.pool,
                     !.sessions[id] = [imsi |-> imsi,
                                       ipAddress |-> a.returned],
                     !.clients[imsi] = [socket |-> socket,
                                        sessionId |-> id]]

\* handleClientDisconnect(message)
HandleClientDisconnect(b, imsi) ==
    IF imsi \notin DOMAIN b.clients \/ b.clients[imsi] = None THEN b
    ELSE LET client == b.clients[imsi]
             b1 == End(b, client.socket)
         IN  [b1 EXCEPT !.sessions[client.sessionId] = None,
                        !.pool = Release(b1.pool, imsi).pool,
                        !.clients[imsi] = None]

\* the 'data' listener of a control connection
SocketData(b, socket, type, imsi, id) ==
    LET b1 == [b EXCEPT !.sockets[socket].clientId =
                            IF imsi # Absent THEN imsi ELSE @]
    IN  CASE type = "invalid" -> End(b, socket)
          [] type = "connect" -> HandleClientConnect(b1, imsi, socket, id)
          [] type = "disconnect" -> HandleClientDisconnect(b1, imsi)
          [] OTHER -> b1

\* the 'close' listener of a control connection
SocketClose(b, socket) ==
    LET b1 == [b EXCEPT !.sockets[socket].state = "closed"]
        clientId == b.sockets[socket].clientId
    IN  IF clientId # NoClientId THEN HandleClientDisconnect(b1, clientId)
        ELSE b1

BridgeConstructed ==
    /\ assigned = [i \in Identifiers |-> NoAddress]
    /\ available = [i \in 1..PoolLength |-> i + FirstOctet - 1]
    /\ clients = [i \in ProfiledImsis |-> None]
    /\ sessions = [k \in SessionIds |-> None]
    /\ sockets = [x \in Sockets |-> NoSocket]

(***************************************************************************)
(* The actions.                                                             *)
(***************************************************************************)
Apply(s0) ==
    LET s == Collect(s0)
    IN  /\ events < MaxEvents
        /\ events' = events + 1
        /\ registrations' = s.registrations
        /\ calls' = s.calls
        /\ heap' = s.heap
        /\ mediaRelays' = s.mediaRelays
        /\ relays' = s.relays
        /\ extSockets' = s.extSockets
        /\ pending' = s.pending
        /\ nextPhoneNumberSuffix' = s.nextPhoneNumberSuffix
        /\ phoneToProfile' = s.phoneToProfile
        /\ profiles' = s.profiles
        /\ minted' = s.minted
        /\ out' = s.out

Event(kind, m, src, k) == [event |-> kind, m |-> m, src |-> src, k |-> k]
Idle == [event |-> "idle"]

\* The program keeps no record of the responses it receives on the server
\* sockets (handleSIPMessage hands them to no handler); answered is the
\* record the properties need: the Call-IDs of the calls in the call table
\* whose callee has sent a 200.  A new INVITE for a Call-ID starts it afresh.
Answered(m, src) ==
    IF m.type = "response"
    THEN IF /\ m.statusCode = 200
            /\ calls[m.callId] # 0
            /\ DestinationOf(src) =
                    Destination(heap[calls[m.callId]].toTransport)
         THEN answered \cup {m.callId}
         ELSE answered
    ELSE IF m.method = "INVITE" THEN answered \ {m.callId}
         ELSE answered

\* A datagram on the UDP server or a read on a TCP connection: the listener
\* builds a new transport descriptor and dispatches the parsed message.
Dispatch(m, src, entropy) ==
    /\ Apply(HandleSIPMessage([Cur EXCEPT !.entropy = entropy], m,
                              ArrivalTransport(src)))
    /\ last' = Event("message", m, src, 0)
    /\ answered' = Answered(m, src)
    /\ UNCHANGED <<codecVars, bridgeVars, domain, allowOutboundCalls, now>>

\* an arrival whose handling does not reach createProfile
Arrive(m, src) == Dispatch(m, src, <<>>)

\* What the calls of createProfile meet while a message with this body is
\* handled: only a body with the marker reaches createProfile, once from each
\* of the two listeners of the provider.
Entropy(body) ==
    IF IncludesMarker(body) THEN {<<a, b>> : a \in Draws, b \in Draws}
                            ELSE {<<>>}

\* the profiles minted so far, each having taken a suffix
Minted == nextPhoneNumberSuffix - FirstPhoneNumberSuffix

\* the targets of the INVITEs: the AORs and the provisioning address of the
\* configured domain
Targets == Aors \cup {Uri("provision", domain)}

ExpiresValues == {"0", "1"}

Register ==
    /\ last = Idle
    /\ \E src \in Registrants, to \in Aors, expires \in ExpiresValues :
           \E contact \in {Absent, src.contact} :
               Arrive(Request("REGISTER", src, to, Absent, contact, expires, ""),
                      src)

Invite ==
    /\ last = Idle
    /\ \E src \in Callers, to \in Targets, callId \in CallIds, body \in Bodies :
           \E entropy \in Entropy(body) :
               /\ Minted + Len(entropy) <= MaxProfiles
               /\ Dispatch(Request("INVITE", src, to, callId, src.contact,
                                   Absent, body),
                           src, entropy)

InDialog ==
    /\ last = Idle
    /\ \E src \in Peers, callId \in CallIds, method \in {"BYE", "ACK", "CANCEL"} :
           Arrive(Request(method, src, FromOf(src), callId, Absent, Absent, ""),
                  src)

Other ==
    /\ last = Idle
    /\ \E src \in Peers, method \in {"OPTIONS", "INFO"} :
           Arrive(Request(method, src, FromOf(src), Absent, Absent, Absent, ""),
                  src)

\* A request whose first line has fewer than three tokens, the headers being
\* there.  SIPMessage.parse takes the tokens there are: with a method only
\* message.uri and message.version stay undefined, with a method and a URI
\* message.version does.
FirstLineTokens == {1, 2}

Malformed ==
    /\ last = Idle
    /\ \E src \in Registrants, method \in {"REGISTER", "INFO"},
          tokens \in FirstLineTokens :
           LET m == Request(method, src, Uri("alice", CONFIG_SIP_SERVER_URL),
                            Absent, src.contact, "1", "")
           IN  Arrive([m EXCEPT !.version = Absent,
                                !.uri = IF tokens = 1 THEN NoMessage.uri
                                        ELSE @],
                      src)

\* a response a peer sends to the server
Response ==
    /\ last = Idle
    /\ \E src \in Peers, callId \in CallIds, body \in {SdpAnswer} :
           Arrive(ResponseMsg(200, Via(src.protocol, domain), FromOf(src),
                              FromOf(src), callId, body), src)

StatusCodes == {200, 202, 486}

\* a datagram on the socket of an externally routed call
ExternalResponse ==
    /\ last = Idle
    /\ \E k \in 1..Len(extSockets), statusCode \in StatusCodes,
          callId \in CallIds, body \in AnswerBodies :
           LET response == ResponseMsg(statusCode, Via("UDP", domain),
                                       extSockets[k].to, extSockets[k].to,
                                       callId, body)
           IN  /\ Apply(ExternalListener(Cur, k, response))
               /\ last' = Event("external", response, extSockets[k].to, k)
               /\ UNCHANGED <<codecVars, bridgeVars, domain, allowOutboundCalls, now, answered>>

\* the callback of externalSocket.send, with or without an error
SendDone ==
    /\ last = Idle
    /\ \E k \in pending, err \in BOOLEAN :
           /\ Apply(SendCallback(Cur, k, err))
           /\ last' = Event(IF err THEN "sendError" ELSE "sendOk", NoMessage,
                            extSockets[k].to, k)
           /\ UNCHANGED <<codecVars, bridgeVars, domain, allowOutboundCalls, now, answered>>

Payloads == {"rtp1", "rtp2"}

\* a datagram on one of the two sockets of a relay that is not closed
RelayDatagram ==
    /\ last = Idle
    /\ \E r \in DOMAIN relays, socket \in {"fromSocket", "toSocket"},
          msg \in Payloads :
           /\ relays[r].closes = 0
           /\ Apply(RelayListener(Cur, r, socket, msg))
           /\ last' = Event("datagram",
                            [NoMessage EXCEPT !.body = msg, !.via = socket],
                            NoMessage.to, r)
           /\ UNCHANGED <<codecVars, bridgeVars, domain, allowOutboundCalls, now, answered>>

\* SIGINT: the handler calls sipServer.close() and the process exits, so no
\* callback runs after this one
Close ==
    /\ last = Idle
    /\ Apply(ServerClose(Cur))
    /\ last' = Event("close", NoMessage, NoMessage.to, 0)
    /\ UNCHANGED <<codecVars, bridgeVars, domain, allowOutboundCalls, now, answered>>

\* a call of provisionNewESIM()
Provision ==
    /\ last = Idle
    /\ \E draw \in Draws :
           /\ Apply(ProvisionNewESIM([Cur EXCEPT !.entropy = <<draw>>]))
           /\ last' = Event("provision", NoMessage, NoMessage.to, 0)
           /\ UNCHANGED <<codecVars, bridgeVars, domain, allowOutboundCalls, now, answered>>

Tick ==
    /\ last = Idle
    /\ events < MaxEvents
    /\ events' = events + 1
    /\ now' = now + MsPerSecond
    /\ UNCHANGED <<out, last, answered>>
    /\ UNCHANGED <<codecVars, bridgeVars, domain, allowOutboundCalls, registrations, calls, heap,
                   mediaRelays, relays, extSockets, pending,
                   nextPhoneNumberSuffix, phoneToProfile, profiles, minted>>

\* the callback returns to the event loop
Return ==
    /\ last # Idle
    /\ last.event # "close"
    /\ last' = Idle
    /\ out' = <<>>
    /\ minted' = <<>>
    /\ registrations' = [a \in Addresses |->
            IF registrations[a] = None THEN None
            ELSE [registrations[a] EXCEPT !.transport = Aged(@)]]
    /\ heap' = [i \in HeapPlaces |-> AgedCall(heap[i])]
    /\ extSockets' = [k \in 1..Len(extSockets) |->
            [extSockets[k] EXCEPT !.transport = Aged(@)]]
    /\ UNCHANGED <<codecVars, bridgeVars, domain, allowOutboundCalls, now, calls, mediaRelays,
                   relays, pending, nextPhoneNumberSuffix, phoneToProfile,
                   profiles, events, answered>>

Init ==
    /\ domain = CONFIG_SIP_SERVER_URL
    /\ allowOutboundCalls \in BOOLEAN
    /\ now = 0
    /\ registrations = [a \in Addresses |-> None]
    /\ calls = [c \in CallIds |-> 0]
    /\ heap = [i \in HeapPlaces |-> None]
    /\ mediaRelays = [c \in CallIds |-> 0]
    /\ relays = <<>>
    /\ extSockets = <<>>
    /\ pending = {}
    /\ nextPhoneNumberSuffix = FirstPhoneNumberSuffix
    /\ phoneToProfile = {}
    /\ profiles = [i \in Iccids |-> None]
    /\ minted = <<>>
    /\ out = <<>>
    /\ last = Idle
    /\ events = 0
    /\ answered = {}
    /\ CodecIdle
    /\ BridgeConstructed

Next ==
    \/ Register
    \/ Malformed
    \/ Invite
    \/ InDialog
    \/ Other
    \/ Response
    \/ ExternalResponse
    \/ SendDone
    \/ RelayDatagram
    \/ Close
    \/ Tick
    \/ Return

Spec == Init /\ [][Next]_vars

\* The server constructed with another domain than that of CONFIG, as the
\* README configures it (options.sip.domain).
InitConfigured ==
    /\ domain = OtherDomain
    /\ allowOutboundCalls = TRUE
    /\ now = 0
    /\ registrations = [a \in Addresses |-> None]
    /\ calls = [c \in CallIds |-> 0]
    /\ heap = [i \in HeapPlaces |-> None]
    /\ mediaRelays = [c \in CallIds |-> 0]
    /\ relays = <<>>
    /\ extSockets = <<>>
    /\ pending = {}
    /\ nextPhoneNumberSuffix = FirstPhoneNumberSuffix
    /\ phoneToProfile = {}
    /\ profiles = [i \in Iccids |-> None]
    /\ minted = <<>>
    /\ out = <<>>
    /\ last = Idle
    /\ events = 0
    /\ answered = {}
    /\ CodecIdle
    /\ BridgeConstructed

SpecConfigured == InitConfigured /\ [][Next]_vars

\* The provider constructed over a phone_mappings.json that an earlier run, or
\* a run with another prefix, has left: any set of these phone numbers as the
\* keys.  The calls of provisionNewESIM follow.
LoadedPhones ==
    {PhoneNumber(1000), PhoneNumber(1002), <<9, 3, 1, 0, 0, 1>>,
     PhoneNumberPrefix}

InitLoaded ==
    /\ domain = CONFIG_SIP_SERVER_URL
    /\ allowOutboundCalls = TRUE
    /\ now = 0
    /\ registrations = [a \in Addresses |-> None]
    /\ calls = [c \in CallIds |-> 0]
    /\ heap = [i \in HeapPlaces |-> None]
    /\ mediaRelays = [c \in CallIds |-> 0]
    /\ relays = <<>>
    /\ extSockets = <<>>
    /\ pending = {}
    /\ \E mappings \in SUBSET LoadedPhones :
        /\ nextPhoneNumberSuffix =
              LoadPhoneNumberMappings(mappings).nextPhoneNumberSuffix
        /\ phoneToProfile = LoadPhoneNumberMappings(mappings).phoneToProfile
    /\ profiles = [i \in Iccids |-> None]
    /\ minted = <<>>
    /\ out = <<>>
    /\ last = Idle
    /\ events = 0
    /\ answered = {}
    /\ CodecIdle
    /\ BridgeConstructed

NextLoaded == Provision \/ Return

SpecLoaded == InitLoaded /\ [][NextLoaded]_vars

\* The server as constructed, no callback run.
ServerIdle ==
    /\ domain = CONFIG_SIP_SERVER_URL
    /\ allowOutboundCalls = TRUE
    /\ now = 0
    /\ registrations = [a \in Addresses |-> None]
    /\ calls = [c \in CallIds |-> 0]
    /\ heap = [i \in HeapPlaces |-> None]
    /\ mediaRelays = [c \in CallIds |-> 0]
    /\ relays = <<>>
    /\ extSockets = <<>>
    /\ pending = {}
    /\ nextPhoneNumberSuffix = FirstPhoneNumberSuffix
    /\ phoneToProfile = {}
    /\ profiles = [i \in Iccids |-> None]
    /\ minted = <<>>
    /\ out = <<>>
    /\ last = Idle
    /\ events = 0
    /\ answered = {}

(***************************************************************************)
(* SIPMessage on its own: a message is serialized by create and the result  *)
(* is handed to parse.                                                      *)
(***************************************************************************)
CreateMessage ==
    /\ data = NoData
    /\ message # None
    /\ data' = Create(message)
    /\ UNCHANGED <<serverVars, last, events, bridgeVars, message, parsed>>

ParseData ==
    /\ data # NoData
    /\ parsed = None
    /\ parsed' = Parse(data)
    /\ UNCHANGED <<serverVars, last, events, bridgeVars, message, data>>

InitCodec ==
    /\ ServerIdle
    /\ BridgeConstructed
    /\ message \in Messages
    /\ data = NoData
    /\ parsed = None

NextCodec == CreateMessage \/ ParseData

SpecCodec == InitCodec /\ [][NextCodec]_vars

(***************************************************************************)
(* IPAddressPool on its own: the calls of assign and release, in any order. *)
(* last shows the call made and what it returned or whether it threw.       *)
(***************************************************************************)
PoolCalls == {"idle", "assign", "release"}

AssignAddress ==
    /\ last.event \in PoolCalls
    /\ \E identifier \in Identifiers :
           LET call == Assign(Pool, identifier)
           IN  /\ assigned' = call.pool.assigned
               /\ available' = call.pool.available
               /\ last' = [event |-> "assign", identifier |-> identifier,
                           returned |-> call.returned,
                           thrown |-> call.thrown]
    /\ UNCHANGED <<serverVars, events, codecVars, clients, sessions, sockets>>

ReleaseAddress ==
    /\ last.event \in PoolCalls
    /\ \E identifier \in Identifiers :
           LET call == Release(Pool, identifier)
           IN  /\ assigned' = call.pool.assigned
               /\ available' = call.pool.available
               /\ last' = [event |-> "release", identifier |-> identifier,
                           returned |-> call.returned, thrown |-> FALSE]
    /\ UNCHANGED <<serverVars, events, codecVars, clients, sessions, sockets>>

InitPool == ServerIdle /\ CodecIdle /\ BridgeConstructed

NextPool == AssignAddress \/ ReleaseAddress

SpecPool == InitPool /\ [][NextPool]_vars

(***************************************************************************)
(* MobileDataBridge on its own, the profiles of ProfiledImsis provisioned:  *)
(* control connections are made, deliver messages and close, in any order.  *)
(* last shows the listener that ran.                                        *)
(***************************************************************************)
BridgeEvents == {"idle", "connection", "data", "socket-close"}
SocketEvent(kind, socket, type, imsi) ==
    [event |-> kind, socket |-> socket, type |-> type, imsi |-> imsi]

ApplyBridge(b) ==
    /\ assigned' = b.pool.assigned
    /\ available' = b.pool.available
    /\ clients' = b.clients
    /\ sessions' = b.sessions
    /\ sockets' = b.sockets

\* the callback of net.createServer
Connection ==
    /\ last.event \in BridgeEvents
    /\ \E socket \in Sockets :
           /\ sockets[socket] = NoSocket
           /\ sockets' = [sockets EXCEPT ![socket].state = "open"]
           /\ last' = SocketEvent("connection", socket, Absent, Absent)
    /\ UNCHANGED <<serverVars, events, codecVars, assigned, available,
                   clients, sessions>>

SocketDataArrives ==
    /\ last.event \in BridgeEvents
    /\ \E socket \in Sockets, type \in MessageTypes,
          imsi \in Imsis \cup {Absent} :
           /\ sockets[socket].state \in {"open", "ended"}
           /\ type = "connect" => UnusedIds(Bridge) # {}
           /\ \E id \in IF type = "connect" THEN UnusedIds(Bridge) ELSE {0} :
                  /\ \A k \in UnusedIds(Bridge) : id <= k
                  /\ ApplyBridge(SocketData(Bridge, socket, type, imsi, id))
           /\ last' = SocketEvent("data", socket, type, imsi)
    /\ UNCHANGED <<serverVars, events, codecVars>>

SocketCloses ==
    /\ last.event \in BridgeEvents
    /\ \E socket \in Sockets :
           /\ sockets[socket].state \in {"open", "ended"}
           /\ ApplyBridge(SocketClose(Bridge, socket))
           /\ last' = SocketEvent("socket-close", socket, Absent, Absent)
    /\ UNCHANGED <<serverVars, events, codecVars>>

InitBridge == ServerIdle /\ CodecIdle /\ BridgeConstructed

NextBridge == Connection \/ SocketDataArrives \/ SocketCloses

SpecBridge == InitBridge /\ [][NextBridge]_vars

(***************************************************************************)
(* Vocabulary of the properties.  A property about what a handler does is   *)
(* an action property over the step that runs the callback: the unprimed    *)
(* state is the one the request arrives in, the primed one the state the    *)
(* handler leaves, with the request in last' and what was sent in out'.     *)
(***************************************************************************)
\* the callback that has run handled a request of this method
Handled(method) ==
    last.event = "message" /\ last.m.type = "request" /\ last.m.method = method

\* where the peer that sent the handled message is reached
Requester == DestinationOf(last.src)

\* a response with this status code was sent to this place
Sent(statusCode, dst) ==
    \E i \in DOMAIN out :
        /\ out[i].type = "response"
        /\ out[i].statusCode = statusCode
        /\ out[i].dst = dst

\* the requests of this method the callback sent
Requests(method) ==
    {i \in DOMAIN out : out[i].type = "request" /\ out[i].method = method}

\* the places the callback sent requests of this method to
ForwardedTo(method) == {out[i].dst : i \in Requests(method)}

\* the call objects the callback that has run created
CreatedCalls ==
    {i \in HeapPlaces : heap[i] # None /\ heap[i].fromTransport.alloc = "now"}

\* everything but the clock, the messages sent and the event handled
Tables ==
    <<registrations, calls, heap, mediaRelays, relays, extSockets, pending,
      nextPhoneNumberSuffix, phoneToProfile, profiles>>

(***************************************************************************)
(* BYE                                                                      *)
(***************************************************************************)
\* a BYE is dispatched for a Call-ID the call table has an entry for
ByeForCall ==
    last = Idle /\ Handled("BYE")' /\ calls[last'.m.callId] # 0

\* a BYE is dispatched for a Call-ID the call table has no entry for
ByeWithoutCall ==
    last = Idle /\ Handled("BYE")' /\ calls[last'.m.callId] = 0

\* C1: a BYE for a Call-ID that has a Call is forwarded to the leg opposite
\* the one it arrived on (from the caller's address to the callee's, from the
\* callee's to the caller's) and never to the address it came from, the
\* arrival being a new datagram or read from the address the INVITE came from.
C1_ByeForwardedToOtherLeg ==
    [][ByeForCall =>
        LET call == heap[calls[last'.m.callId]]
            callerLeg == Destination(call.fromTransport)
            calleeLeg == Destination(call.toTransport)
        IN  /\ Requester' = callerLeg => ForwardedTo("BYE")' = {calleeLeg}
            /\ Requester' = calleeLeg => ForwardedTo("BYE")' = {callerLeg}
            /\ Requester' \notin ForwardedTo("BYE")']_vars

\* C2: after a BYE for a Call-ID that has a Call, from either leg, the
\* requester has been sent a 200, the call table has no entry for the Call-ID
\* and the relay table has none either.
C2_ByeEndsCall ==
    [][ByeForCall =>
        /\ Sent(200, Requester)'
        /\ calls'[last'.m.callId] = 0
        /\ mediaRelays'[last'.m.callId] = 0]_vars

\* a BYE has ended a call that had a relay: the 200 is out, the entries are
\* gone and the relay of the Call-ID has been closed
C2_Witness ==
    /\ Handled("BYE")
    /\ Sent(200, Requester)
    /\ calls[last.m.callId] = 0
    /\ mediaRelays[last.m.callId] = 0
    /\ \E r \in DOMAIN relays :
        relays[r].callId = last.m.callId /\ relays[r].closes = 1

\* C3: a BYE for a Call-ID without a Call is answered 481 and nothing else is
\* sent and no table changes; and of two BYEs for a Call-ID with no INVITE for
\* it in between the second is answered 481: after a BYE the Call-ID has no
\* Call, and only an INVITE for the Call-ID gives it one.
C3_ByeWithoutCall ==
    /\ [][ByeWithoutCall =>
            /\ Len(out') = 1
            /\ Sent(481, Requester)'
            /\ UNCHANGED Tables]_vars
    /\ [](Handled("BYE") => calls[last.m.callId] = 0)
    /\ [][\A c \in CallIds :
            calls[c] = 0 /\ calls'[c] # 0 =>
                Handled("INVITE")' /\ last'.m.callId = c]_vars

\* a BYE answered 481 for a Call-ID that had a Call earlier, the socket of
\* which is still open
C3_Witness ==
    /\ Handled("BYE")
    /\ Len(out) = 1
    /\ Sent(481, Requester)
    /\ \E k \in DOMAIN extSockets : extSockets[k].callId = last.m.callId

(***************************************************************************)
(* REGISTER and the lookup of a binding                                     *)
(***************************************************************************)
\* an INVITE is dispatched
InviteArrives == last = Idle /\ Handled("INVITE")'

\* a REGISTER is dispatched
RegisterArrives == last = Idle /\ Handled("REGISTER")'

\* the target matches the reserved provisioning pattern
ProvisioningTarget(to) == IncludesServerUrl(to) /\ IncludesProvision(to)

\* C4: an expired registration is treated as absent.  Once now >= the expiry
\* of the binding of an AOR, an INVITE to the AOR is not forwarded to the
\* binding's contact and creates no Call; before that the binding is used:
\* the INVITE is forwarded to the contact and a Call is created.  (Stated for
\* the AORs outside the provisioning pattern, whose INVITEs are routed.)
C4_ExpiredBindingIsAbsent ==
    [][InviteArrives /\ registrations[last'.m.to] # None
       /\ ~ProvisioningTarget(last'.m.to) =>
        LET binding == registrations[last'.m.to]
            contactLeg == Destination(binding.transport)
        IN  IF now >= binding.expires
            THEN contactLeg \notin ForwardedTo("INVITE")' /\ CreatedCalls' = {}
            ELSE contactLeg \in ForwardedTo("INVITE")' /\ CreatedCalls' # {}]_vars

\* the binding a REGISTER asks for: its contact, the descriptor it arrived
\* with and the time it arrived at plus the seconds it asks for
BindingOf(m, src, time) ==
    [contact |-> m.contact,
     expires |-> time + ExpiresSeconds(m) * MsPerSecond,
     transport |-> ArrivalTransport(src)]

\* a 200 that echoes the Contact of the handled REGISTER and the seconds it
\* asked for was sent to the requester
SentOkEchoing ==
    \E i \in DOMAIN out :
        /\ out[i].type = "response"
        /\ out[i].statusCode = 200
        /\ out[i].dst = Requester
        /\ out[i].contact = last.m.contact
        /\ out[i].expires = IntToString(ExpiresSeconds(last.m))

\* The claim of C5 as the specification words it: every REGISTER with
\* expiresSeconds > 0 leaves the binding of the AOR being that of this
\* request, and is answered 200 echoing Contact and Expires.
C5_EveryRegisterBinds ==
    [][RegisterArrives /\ ExpiresSeconds(last'.m) > 0 =>
        /\ registrations'[last'.m.to] = BindingOf(last'.m, last'.src, now)
        /\ SentOkEchoing']_vars

\* C5 (amended): every REGISTER with expiresSeconds > 0 that carries a Contact
\* leaves exactly one binding for the AOR, with the contact and the transport
\* of this request and the expiry now + expiresSeconds, whatever binding the
\* AOR had before; the requester is answered 200 echoing Contact and Expires.
C5_RegisterWithContactBinds ==
    [][RegisterArrives /\ ExpiresSeconds(last'.m) > 0
       /\ last'.m.contact # Absent =>
        /\ registrations'[last'.m.to] = BindingOf(last'.m, last'.src, now)
        /\ SentOkEchoing']_vars

\* a REGISTER at a later time has replaced the binding of an AOR
C5_Witness ==
    /\ Handled("REGISTER")
    /\ ExpiresSeconds(last.m) > 0
    /\ last.m.contact # Absent
    /\ now > 0
    /\ registrations[last.m.to] = BindingOf(last.m, last.src, now)
    /\ SentOkEchoing

\* C6: a REGISTER with expiry 0 removes the binding of the AOR at once, is
\* answered 200 whether the AOR had a binding or not, and leaves the binding
\* of every other AOR as it was; an INVITE that finds no binding for its
\* target reaches no registered contact.
C6_RegisterZeroRemoves ==
    /\ [][RegisterArrives /\ ExpiresSeconds(last'.m) = 0 =>
            /\ registrations'[last'.m.to] = None
            /\ Sent(200, Requester)'
            /\ \A a \in Aors \ {last'.m.to} :
                registrations'[a] = registrations[a]]_vars
    /\ [][InviteArrives /\ registrations[last'.m.to] = None =>
            \A i \in Requests("INVITE")' : out'[i].dst.sock = "external"]_vars

\* a REGISTER with expiry 0 has been answered 200, its AOR has no binding and
\* another AOR still has its own
C6_Witness ==
    /\ Handled("REGISTER")
    /\ ExpiresSeconds(last.m) = 0
    /\ Sent(200, Requester)
    /\ registrations[last.m.to] = None
    /\ \E a \in Aors : registrations[a] # None

(***************************************************************************)
(* INVITE                                                                   *)
(***************************************************************************)
\* the callback created one Call, the one the call table holds for the
\* Call-ID of the handled request
CreatedTheCall ==
    /\ calls[last.m.callId] # 0
    /\ CreatedCalls = {calls[last.m.callId]}

\* the Call the call table holds for the Call-ID of the handled request
TheCall == heap[calls[last.m.callId]]

\* an INVITE whose Via and Contact name this server was sent to this place
ForwardedInviteTo(dst) ==
    \E i \in Requests("INVITE") :
        /\ out[i].dst = dst
        /\ out[i].uri = last.m.to
        /\ out[i].via.sentBy = domain
        /\ out[i].contact = domain

\* RegistrarDirectory.lookup of the specification succeeds: the AOR has a
\* binding and its expiry has not been reached
Registered(aor) ==
    registrations[aor] # None /\ now < registrations[aor].expires

\* The claim of C7 as the specification words it: every INVITE to a
\* registered AOR creates one Call in TRYING or RINGING, sends 100 Trying to
\* the originator and forwards the rewritten INVITE to the contact's transport.
C7_EveryInviteToRegistered ==
    [][InviteArrives /\ Registered(last'.m.to) =>
        /\ CreatedTheCall'
        /\ TheCall'.state \in {"trying", "ringing"}
        /\ Sent(100, Requester)'
        /\ ForwardedInviteTo(
              Destination(registrations[last.m.to].transport))']_vars

\* C7 (amended): an INVITE to a registered AOR that does not match the
\* reserved provisioning pattern creates exactly one Call for its Call-ID, in
\* state TRYING or RINGING, sends 100 Trying to the originator and forwards
\* the INVITE to the transport of the registered contact with Via and Contact
\* rewritten to name this server.
C7_InviteToRegistered ==
    [][InviteArrives /\ Registered(last'.m.to)
       /\ ~ProvisioningTarget(last'.m.to) =>
        /\ CreatedTheCall'
        /\ TheCall'.state \in {"trying", "ringing"}
        /\ Sent(100, Requester)'
        /\ ForwardedInviteTo(
              Destination(registrations[last.m.to].transport))']_vars

\* an INVITE to a registered AOR has been handled: the Call is ringing, the
\* 100 is out and the INVITE went to the connection the AOR registered on
C7_Witness ==
    /\ Handled("INVITE")
    /\ Registered(last.m.to)
    /\ ~ProvisioningTarget(last.m.to)
    /\ CreatedTheCall
    /\ TheCall.state = "ringing"
    /\ ~TheCall.isExternal
    /\ Sent(100, Requester)
    /\ ForwardedInviteTo(Destination(registrations[last.m.to].transport))

\* the callback sent no request
ForwardedNothing == \A i \in DOMAIN out : out[i].type # "request"

\* C9: an INVITE whose target is not registered and cannot be routed
\* externally (external routing is off, or the host of the target is the
\* local domain) is answered 404, creates no Call, opens no socket and
\* forwards nothing.  (Stated for the targets outside the provisioning
\* pattern, whose INVITEs are routed.)
C9_UnroutableInvite ==
    [][InviteArrives /\ ~Registered(last'.m.to)
       /\ ~ProvisioningTarget(last'.m.to)
       /\ (~allowOutboundCalls \/ last'.m.to.host = domain) =>
        /\ Sent(404, Requester)'
        /\ CreatedCalls' = {}
        /\ calls' = calls
        /\ Len(extSockets') = Len(extSockets)
        /\ ForwardedNothing']_vars

\* the call objects of externally routed calls; the listener of a call's
\* socket keeps the object of every such call ever created
ExternalCalls == {i \in HeapPlaces : heap[i] # None /\ heap[i].isExternal}

\* C10: an INVITE to a target that is not registered and is on another domain
\* than the local one, external routing being on, creates one Call with the
\* externally-routed flag, opens exactly one socket for that call, sends 100
\* Trying to the originator and forwards a rewritten INVITE to port 5060 of
\* the target's host; and the sockets ever opened are as many as the
\* externally routed Calls ever created.
C10_ExternalInvite ==
    /\ [][InviteArrives /\ ~Registered(last'.m.to)
          /\ last'.m.to.host # domain /\ allowOutboundCalls =>
            /\ CreatedTheCall'
            /\ TheCall'.isExternal
            /\ Len(extSockets') = Len(extSockets) + 1
            /\ extSockets'[Len(extSockets')].callId = last'.m.callId
            /\ Sent(100, Requester)'
            /\ ForwardedInviteTo([sock |-> "external",
                                  address |-> last.m.to.host,
                                  port |-> StandardSipPort])']_vars
    /\ [](Len(extSockets) = Cardinality(ExternalCalls))

(***************************************************************************)
(* ACK                                                                      *)
(***************************************************************************)
\* C8: a Call created by an INVITE to a registered AOR is ACCEPTED once the
\* callee has answered 200 and the caller's ACK has been handled.
C8_AckAfterOkAccepts ==
    [][/\ last = Idle
       /\ Handled("ACK")'
       /\ calls[last'.m.callId] # 0
       /\ ~heap[calls[last'.m.callId]].isExternal
       /\ last'.m.callId \in answered
       /\ Requester' = Destination(heap[calls[last'.m.callId]].fromTransport)
       => /\ calls'[last'.m.callId] # 0
          /\ heap'[calls'[last'.m.callId]].state = "accepted"]_vars

(***************************************************************************)
(* Responses on the socket of an externally routed call                     *)
(***************************************************************************)
\* the listener of a call's socket has run
HandledExternal == last.event = "external"

\* a response with the Call-ID of its call arrives on the socket of an
\* externally routed call that the call table still holds
ExternalResponseForCall ==
    /\ last = Idle
    /\ HandledExternal'
    /\ last'.m.type = "response"
    /\ last'.m.callId = extSockets[last'.k].callId
    /\ calls[last'.m.callId] = extSockets[last'.k].call

\* where the caller of the call of a socket is reached
CallerOf(k) == Destination(extSockets[k].transport)

\* C11: for an externally routed Call, every 2xx response (200..299) that
\* arrives on the socket of the call with the call's Call-ID is relayed to
\* the transport of the original caller, moves the Call to ACCEPTED and, when
\* it has a body, records the body as the answered session description.
C11_Every2xxAccepts ==
    [][ExternalResponseForCall /\ last'.m.statusCode \in 200..299 =>
        /\ Sent(last.m.statusCode, CallerOf(last.k))'
        /\ heap'[extSockets[last'.k].call].state = "accepted"
        /\ last'.m.body # "" =>
              heap'[extSockets[last'.k].call].toSDP = last'.m.body]_vars

\* C12: for an externally routed Call, a final response that is not a 2xx
\* (status >= 300) arriving on the socket of the call ends the Call: the call
\* table no longer has it afterwards, no BYE having arrived.
C12_FinalNon2xxEndsCall ==
    [][ExternalResponseForCall /\ last'.m.statusCode >= 300 =>
        calls'[last'.m.callId] = 0]_vars

\* the callback of the send of an externally routed INVITE runs with an error
SendFails == last = Idle /\ last'.event = "sendError"

\* C13: when the send of the forwarded INVITE of an externally routed call
\* fails, the original caller is sent a 500 and the Call is discarded: no
\* Call exists for the Call-ID afterwards.
C13_SendFailureDiscardsCall ==
    [][SendFails =>
        /\ Sent(500, CallerOf(last.k))'
        /\ calls'[extSockets[last'.k].callId] = 0]_vars

\* the send of an externally routed INVITE has failed: the 500 went to the
\* caller, the socket of the call is there and the call table has no Call
C13_Witness ==
    /\ last.event = "sendError"
    /\ Sent(500, CallerOf(last.k))
    /\ heap[extSockets[last.k].call].isExternal
    /\ calls[extSockets[last.k].callId] = 0

(***************************************************************************)
(* The lifecycle of a Call and duplicate INVITEs                            *)
(***************************************************************************)
\* the place of a lifecycle state in TRYING -> RINGING -> ACCEPTED
Rank(state) ==
    CASE state = "trying" -> 1
      [] state = "ringing" -> 2
      [] state = "accepted" -> 3

\* the lifecycle state the call table records for a Call-ID
StateOf(c) == heap[calls[c]].state

\* C14: the lifecycle state recorded for a Call-ID only moves forward along
\* TRYING -> RINGING -> ACCEPTED -> terminated: whatever arrives, a Call-ID
\* that stays live never goes back to a state it has left.
C14_LifecycleMovesForward ==
    [][\A c \in CallIds :
        calls[c] # 0 /\ calls'[c] # 0 =>
            Rank(StateOf(c)') >= Rank(StateOf(c))]_vars

\* an INVITE arrives for a Call-ID the call table has a Call for
DuplicateInvite == InviteArrives /\ calls[last'.m.callId] # 0

\* C15: a second INVITE for a Call-ID whose Call is live creates no second
\* Call object for the id: the Call recorded before (legs, state, offered
\* description, externally-routed flag) is the one recorded afterwards, and
\* no further socket or listener is made for the Call-ID.
C15_DuplicateInviteKeepsCall ==
    [][DuplicateInvite =>
        /\ CreatedCalls' = {}
        /\ calls'[last'.m.callId] = calls[last'.m.callId]
        /\ heap'[calls[last'.m.callId]] = heap[calls[last'.m.callId]]
        /\ Len(extSockets') = Len(extSockets)]_vars

(***************************************************************************)
(* CANCEL                                                                   *)
(***************************************************************************)
\* a CANCEL is dispatched for a Call-ID the call table has an entry for
CancelForCall ==
    last = Idle /\ Handled("CANCEL")' /\ calls[last'.m.callId] # 0

\* a CANCEL is dispatched for a Call-ID the call table has no entry for
CancelWithoutCall ==
    last = Idle /\ Handled("CANCEL")' /\ calls[last'.m.callId] = 0

\* C16: a CANCEL for a Call-ID whose Call is not yet ACCEPTED is forwarded to
\* the leg opposite the one it arrived on, the requester is sent a 200 and the
\* call table has no entry for the Call-ID afterwards; a CANCEL for a Call-ID
\* with no Call is answered 481 and changes no table.
C16_CancelEndsPendingCall ==
    /\ [][CancelForCall /\ StateOf(last'.m.callId) # "accepted" =>
            LET call == heap[calls[last'.m.callId]]
                callerLeg == Destination(call.fromTransport)
                calleeLeg == Destination(call.toTransport)
            IN  /\ Requester' = callerLeg =>
                       ForwardedTo("CANCEL")' = {calleeLeg}
                /\ Requester' = calleeLeg =>
                       ForwardedTo("CANCEL")' = {callerLeg}
                /\ Sent(200, Requester)'
                /\ calls'[last'.m.callId] = 0]_vars
    /\ [][CancelWithoutCall =>
            /\ Len(out') = 1
            /\ Sent(481, Requester)'
            /\ UNCHANGED Tables]_vars

\* C17: a CANCEL for a Call-ID whose Call is ACCEPTED is answered 481 and
\* leaves the Call alone: the call table still records the same Call, in
\* state ACCEPTED, and the relay table and the relays are as they were.
C17_CancelAfterAccept ==
    [][CancelForCall /\ StateOf(last'.m.callId) = "accepted" =>
        /\ Sent(481, Requester)'
        /\ calls'[last'.m.callId] = calls[last'.m.callId]
        /\ heap'[calls'[last'.m.callId]].state = "accepted"
        /\ UNCHANGED <<mediaRelays, relays>>]_vars

(***************************************************************************)
(* ACK                                                                      *)
(***************************************************************************)
\* an ACK is dispatched for a Call-ID the call table has an entry for
AckForCall ==
    last = Idle /\ Handled("ACK")' /\ calls[last'.m.callId] # 0

\* an ACK is dispatched for a Call-ID the call table has no entry for
AckWithoutCall ==
    last = Idle /\ Handled("ACK")' /\ calls[last'.m.callId] = 0

\* the callback sent no response of any status
SentNoResponse == \A i \in DOMAIN out : out[i].type # "response"

\* C18: an ACK for a Call-ID that has a Call is forwarded to the leg opposite
\* the one it arrived on (from the caller's address to the callee's, from the
\* callee's to the caller's), and no response of any status is sent.
C18_AckForwardedToOtherLeg ==
    [][AckForCall =>
        LET call == heap[calls[last'.m.callId]]
            callerLeg == Destination(call.fromTransport)
            calleeLeg == Destination(call.toTransport)
        IN  /\ Requester' = callerLeg => ForwardedTo("ACK")' = {calleeLeg}
            /\ Requester' = calleeLeg => ForwardedTo("ACK")' = {callerLeg}
            /\ SentNoResponse']_vars

\* C19: an ACK for a Call-ID with no Call is dropped: nothing is sent to
\* anyone, and the call table, the registrations and the relay table (with
\* every other table of the engine) are as they were.
C19_AckWithoutCallDropped ==
    [][AckWithoutCall => out' = <<>> /\ UNCHANGED Tables]_vars

\* an ACK was handled for a Call-ID with no Call, while the other Call-ID has
\* a Call and a binding is registered, and nothing was sent
C19_Witness ==
    /\ Handled("ACK")
    /\ calls[last.m.callId] = 0
    /\ \E c \in CallIds : calls[c] # 0
    /\ \E a \in Aors : registrations[a] # None
    /\ out = <<>>

(***************************************************************************)
(* Media relay sessions                                                     *)
(***************************************************************************)
\* the relay sessions made for a call-id whose sockets are bound and not
\* closed
LiveRelays(c) ==
    {r \in DOMAIN relays : relays[r].callId = c /\ relays[r].closes = 0}

\* C20: at most one relay session is live per call-id at any time, and a
\* callback that finds a session recorded for a call-id and leaves one
\* recorded leaves the same one: setting up a relay for a call-id that has a
\* session binds no new sockets.
C20_OneRelayPerCall ==
    /\ [](\A c \in CallIds : Cardinality(LiveRelays(c)) <= 1)
    /\ [][\A c \in CallIds :
            mediaRelays[c] # 0 /\ mediaRelays'[c] # 0 =>
                mediaRelays'[c] = mediaRelays[c]]_vars

\* the server has been shut down
ServerClosed == last.event = "close"

\* C21: every relay session ever set up has its sockets closed exactly once:
\* none is closed a second time, and once its call is no longer in the call
\* table, or the server has been shut down, its sockets are closed.
C21_RelayClosedExactlyOnce ==
    \A r \in DOMAIN relays :
        /\ relays[r].closes <= 1
        /\ calls[relays[r].callId] = 0 \/ ServerClosed =>
               relays[r].closes = 1

\* C22: every session of the relay table is that of a Call-ID the call table
\* has a Call for, and a BYE or a CANCEL that removes a Call leaves no session
\* for its Call-ID in the relay table.
C22_RelayBelongsToLiveCall ==
    /\ [](\A c \in CallIds : mediaRelays[c] # 0 => calls[c] # 0)
    /\ [][ByeForCall \/ CancelForCall =>
            mediaRelays'[last'.m.callId] = 0]_vars

\* the description has an audio media line
HasAudio(sdp) ==
    \E i \in DOMAIN Lines(sdp) : Lines(sdp)[i].start = "m=audio"

\* the relay sessions the callback that has run set up
NewRelays == (Len(relays) + 1)..Len(relays')

\* the call object the callback that has run worked on: the one the listener
\* of the call's socket closed over, or the one the call table holds
WorkedCall ==
    IF HandledExternal THEN heap[extSockets[last.k].call]
    ELSE heap[calls[last.m.callId]]

\* C23: a relay session is set up only by the handling of a 200 on the call's
\* socket or of an ACK, and only for a Call that is in the call table in state
\* ACCEPTED and whose offered and answered descriptions are both non-empty
\* with an audio media line.
C23_RelayOnlyWithBothDescriptions ==
    [][NewRelays # {} =>
        /\ HandledExternal' \/ Handled("ACK")'
        /\ calls'[last'.m.callId] # 0
        /\ heap'[calls'[last'.m.callId]] = WorkedCall'
        /\ \A r \in NewRelays :
            /\ relays'[r].callId = WorkedCall'.id
            /\ WorkedCall'.state = "accepted"
            /\ WorkedCall'.fromSDP # "" /\ HasAudio(WorkedCall'.fromSDP)
            /\ WorkedCall'.toSDP # "" /\ HasAudio(WorkedCall'.toSDP)]_vars

\* The callback being run reaches the call of setupMediaRelay: the listener
\* of a call's socket on a 200 with a body for a call with an offer, or
\* handleAck for an ACCEPTED call with an offer and an answer.  The offer and
\* the answer are those the call has when setupMediaRelay is called.
SetupByListener ==
    /\ last = Idle
    /\ HandledExternal'
    /\ last'.m.type = "response"
    /\ last'.m.callId = extSockets[last'.k].callId
    /\ last'.m.statusCode = 200
    /\ last'.m.body # ""
    /\ heap[extSockets[last'.k].call].fromSDP # ""

SetupByAck ==
    /\ AckForCall
    /\ StateOf(last'.m.callId) = "accepted"
    /\ heap[calls[last'.m.callId]].fromSDP # ""
    /\ heap[calls[last'.m.callId]].toSDP # ""

LacksAudio(call) == ~HasAudio(call.fromSDP) \/ ~HasAudio(call.toSDP)

\* C24: when the offer or the answer has no audio media line, the call of
\* setupMediaRelay sets up no session and binds no socket, and the call table
\* is as it was; an ACK for such a Call is forwarded and a BYE for it is
\* answered 200 and removes it, as for any Call.
C24_NoAudioNoRelay ==
    /\ [][(SetupByListener \/ SetupByAck) /\ LacksAudio(WorkedCall') =>
            /\ relays' = relays
            /\ mediaRelays' = mediaRelays
            /\ calls' = calls]_vars
    /\ [][AckForCall /\ LacksAudio(heap[calls[last'.m.callId]]) =>
            /\ Requests("ACK")' # {}
            /\ SentNoResponse'
            /\ relays' = relays
            /\ calls' = calls]_vars
    /\ [][ByeForCall /\ LacksAudio(heap[calls[last'.m.callId]]) =>
            /\ Sent(200, Requester)'
            /\ calls'[last'.m.callId] = 0]_vars

\* an ACK was forwarded for an ACCEPTED Call whose offer has an audio media
\* line and whose answer has none, and there is no relay session
C24_Witness ==
    /\ Handled("ACK")
    /\ calls[last.m.callId] # 0
    /\ WorkedCall.state = "accepted"
    /\ WorkedCall.fromSDP = SdpAudio
    /\ WorkedCall.toSDP = SdpVideo
    /\ Requests("ACK") # {}
    /\ relays = <<>>

(***************************************************************************)
(* The forwarding rule of a relay session                                   *)
(***************************************************************************)
\* a datagram arrives on a socket of a relay
DatagramArrives == last = Idle /\ last'.event = "datagram"

\* the port of the audio media line of a description and the address of its
\* connection line, wherever in the description the connection line stands
AudioPort(sdp) ==
    LET i == CHOOSE i \in DOMAIN Lines(sdp) : Lines(sdp)[i].start = "m=audio"
    IN  Lines(sdp)[i].port

ConnectionAddress(sdp) ==
    LET i == CHOOSE i \in DOMAIN Lines(sdp) : Lines(sdp)[i].start = "c="
    IN  Lines(sdp)[i].address

\* the datagram a relay sends on for one it received: this payload, sent with
\* this socket of the relay to this address and port
Resent(payload, r, socket, address, port) ==
    [type |-> "datagram", payload |-> payload,
     dst |-> [sock |-> <<r, socket>>, address |-> address, port |-> port]]

\* C25: a datagram arriving on the first socket of a relay session is sent
\* on unchanged with the second socket to the address and port of the answer,
\* one arriving on the second socket with the first socket to the address and
\* port of the offer, and nothing else is sent.
C25_RelayForwardingRule ==
    [][DatagramArrives =>
        LET r == last'.k
            payload == last'.m.body
        IN  IF last'.m.via = "fromSocket"
            THEN out' = <<Resent(payload, r, "toSocket",
                                 ConnectionAddress(relays[r].answer),
                                 AudioPort(relays[r].answer))>>
            ELSE out' = <<Resent(payload, r, "fromSocket",
                                 ConnectionAddress(relays[r].offer),
                                 AudioPort(relays[r].offer))>>]_vars

(***************************************************************************)
(* Provisioning                                                             *)
(***************************************************************************)
\* the address provision@<domain> of the domain the server is configured with
ProvisioningAddress == Uri("provision", domain)

\* an INVITE to the provisioning address is dispatched
ProvisioningInvite == InviteArrives /\ last'.m.to = ProvisioningAddress'

\* no call of createProfile in the callback threw
StoreWorked == \A i \in DOMAIN minted : ~minted[i].thrown

\* the callback sends the requester a 200 whose body carries the phone
\* number, the ICCID and the IMSI of a profile the store holds after the
\* callback and did not hold before it
SendsNewProfile ==
    \E i \in DOMAIN out' :
        /\ out'[i].type = "response"
        /\ out'[i].statusCode = 200
        /\ out'[i].dst = Requester'
        /\ \E p \in {profiles'[c] : c \in Iccids} \ {None} :
            /\ p \notin {profiles[c] : c \in Iccids}
            /\ out'[i].body.phoneNumber = p.msisdn
            /\ out'[i].body.iccid = p.iccid
            /\ out'[i].body.imsi = p.imsi

\* C26: an INVITE to provision@<domain>, <domain> being the domain the server
\* is configured with, whose body is the marker is answered 200 with a body
\* that carries the phone number, ICCID and IMSI of a profile minted for the
\* request (the profile store not failing).
C26_ProvisioningInviteMints ==
    [][ProvisioningInvite /\ last'.m.body = Marker /\ StoreWorked' =>
        SendsNewProfile]_vars

\* an INVITE is dispatched that triggers provisioning: its To matches the
\* pattern handleInvite tests, or its request URI and body match what the
\* provider's 'message' listener tests
ProvisioningTriggered ==
    /\ InviteArrives
    /\ \/ ProvisioningTarget(last'.m.to)
       \/ IncludesServerUrl(last'.m.uri) /\ IncludesMarker(last'.m.body)

\* C27: an INVITE that triggers provisioning, by either path, creates no
\* Call: the call table gets no entry, no 100 Trying is sent and no INVITE
\* is forwarded.
C27_ProvisioningCreatesNoCall ==
    [][ProvisioningTriggered =>
        /\ calls' = calls
        /\ CreatedCalls' = {}
        /\ ~Sent(100, Requester)'
        /\ ForwardedTo("INVITE")' = {}]_vars

\* the callback sent one message, a response with this status code to the
\* requester
AnsweredOnly(statusCode) ==
    /\ Len(out) = 1
    /\ out[1].type = "response"
    /\ out[1].statusCode = statusCode
    /\ out[1].dst = Requester

\* the profile store and the phone numbers are as they were
MintedNothing ==
    /\ profiles' = profiles
    /\ minted' = <<>>
    /\ nextPhoneNumberSuffix' = nextPhoneNumberSuffix
    /\ phoneToProfile' = phoneToProfile

\* C28: an INVITE to the reserved provisioning address whose body lacks the
\* marker is answered 400, mints no profile, allocates no phone number and
\* creates no Call.
C28_MarkerAbsentRejected ==
    [][InviteArrives /\ ProvisioningTarget(last'.m.to)
       /\ ~IncludesMarker(last'.m.body) =>
        /\ AnsweredOnly(400)'
        /\ MintedNothing
        /\ calls' = calls
        /\ CreatedCalls' = {}]_vars

\* an INVITE to the provisioning address that carries an offer instead of
\* the marker has been answered 400, a profile having been minted earlier
C28_Witness ==
    /\ Handled("INVITE")
    /\ ProvisioningTarget(last.m.to)
    /\ last.m.body = SdpAudio
    /\ AnsweredOnly(400)
    /\ phoneToProfile # {}

\* C29: if the profile store fails while minting, the provisioning INVITE is
\* answered 500 and not 200, no Call is created, and the callback returns
\* with the server still listening.
C29_StoreFailureAnswered500 ==
    [][ProvisioningTriggered /\ ~StoreWorked' =>
        /\ Sent(500, Requester)'
        /\ ~Sent(200, Requester)'
        /\ calls' = calls
        /\ CreatedCalls' = {}
        /\ last'.event = "message"]_vars

(***************************************************************************)
(* OPTIONS and the methods the server does not know                         *)
(***************************************************************************)
\* an OPTIONS is dispatched
OptionsArrives == last = Idle /\ Handled("OPTIONS")'

\* a request of a method the switch of handleSIPMessage has no case for is
\* dispatched
KnownMethods == {"REGISTER", "INVITE", "BYE", "ACK", "CANCEL", "OPTIONS"}
UnknownMethodArrives ==
    /\ last = Idle
    /\ last'.event = "message"
    /\ last'.m.type = "request"
    /\ last'.m.method \notin KnownMethods

\* the registrations, the call table and the relay table are as they were
RoutingStateUnchanged ==
    UNCHANGED <<registrations, calls, heap, mediaRelays, relays>>

\* C30: OPTIONS is answered 200 with the fixed capability list, and a method
\* other than REGISTER, INVITE, BYE, ACK, CANCEL and OPTIONS is answered 405;
\* in both cases the registrations, the call table and the relay table are
\* left as they were and nothing is forwarded.
C30_OptionsAndUnknownMethods ==
    [][/\ OptionsArrives =>
            /\ AnsweredOnly(200)'
            /\ out'[1].allow = AllowedMethods
            /\ out'[1].supported = SupportedExtensions
            /\ RoutingStateUnchanged
       /\ UnknownMethodArrives =>
            /\ AnsweredOnly(405)'
            /\ RoutingStateUnchanged]_vars

\* an OPTIONS has been answered while a call with a relay is up
C30_Witness ==
    /\ Handled("OPTIONS")
    /\ AnsweredOnly(200)
    /\ out[1].allow = AllowedMethods
    /\ \E c \in CallIds : calls[c] # 0 /\ mediaRelays[c] # 0

(***************************************************************************)
(* The listener of a call's socket after the call has ended                 *)
(***************************************************************************)
\* a response with the Call-ID of its call arrives on the socket of an
\* externally routed call that the call table holds no longer
ExternalResponseAfterCall ==
    /\ last = Idle
    /\ HandledExternal'
    /\ last'.m.type = "response"
    /\ last'.m.callId = extSockets[last'.k].callId
    /\ calls[last'.m.callId] = 0

\* C33: the response listener of an externally routed call is removed when
\* the call ends: a response that arrives on the socket of the call after the
\* Call was removed from the call table sends nothing to the original caller,
\* changes the state of no Call and sets up no relay session.
C33_ListenerRemovedWithCall ==
    [][ExternalResponseAfterCall =>
        /\ out' = <<>>
        /\ heap' = heap
        /\ NewRelays = {}]_vars

(***************************************************************************)
(* The local domain                                                         *)
(***************************************************************************)
\* C34: an INVITE to a target that is not registered and whose host is the
\* domain the server is configured with is not externally routed: it creates
\* no externally routed Call and opens no socket, whatever that domain is.
C34_LocalDomainNotRoutedOut ==
    [][InviteArrives /\ ~Registered(last'.m.to) /\ last'.m.to.host = domain =>
        /\ \A i \in CreatedCalls' : ~heap'[i].isExternal
        /\ Len(extSockets') = Len(extSockets)]_vars

(***************************************************************************)
(* One provisioning per INVITE                                              *)
(***************************************************************************)
\* the final responses the callback sent to the requester
FinalResponses ==
    {i \in DOMAIN out : /\ out[i].type = "response"
                        /\ out[i].statusCode >= 200
                        /\ out[i].dst = Requester}

\* C35: one INVITE to the provisioning address is handled once: it mints one profile,
\* allocates one phone number and produces one final response to the
\* requester, also when it matches both the test of the 'message' listener
\* and the test of handleInvite.
C35_ProvisionedOnce ==
    [][InviteArrives /\ ProvisioningTarget(last'.m.to)
       /\ IncludesMarker(last'.m.body) =>
        /\ Len(minted') = 1
        /\ nextPhoneNumberSuffix' = nextPhoneNumberSuffix + 1
        /\ Cardinality(FinalResponses') = 1]_vars

(***************************************************************************)
(* The callback of the send and a newer Call under the same Call-ID         *)
(***************************************************************************)
\* the callback of the send of an INVITE runs with an error while the call
\* table holds, under the Call-ID of that INVITE, a Call made by a later one
SendFailsAfterNewerCall ==
    /\ SendFails
    /\ calls[extSockets[last'.k].callId] # 0
    /\ calls[extSockets[last'.k].callId] # extSockets[last'.k].call

\* C36: the callback of the send of an externally routed INVITE discards only
\* the Call that INVITE created: a Call that a later INVITE has stored under
\* the same Call-ID in the meantime stays in the call table.
C36_CallbackSparesNewerCall ==
    [][SendFailsAfterNewerCall =>
        calls'[extSockets[last'.k].callId] =
            calls[extSockets[last'.k].callId]]_vars

(***************************************************************************)
(* REGISTER and the calls                                                   *)
(***************************************************************************)
\* the Call of a Call-ID was made by an INVITE to an AOR that has no binding
CalleeUnregistered(callId) ==
    /\ ~heap[calls[callId]].isExternal
    /\ registrations[heap[calls[callId]].to] = None

\* C38: a REGISTER, also one with expiry 0 that removes the binding of the
\* callee of a call, changes the binding of its own AOR only: the call table,
\* the legs and the state of every Call and the relay table are as they were;
\* and a BYE for a Call whose callee has no binding any more is handled as
\* for any Call in the table: answered 200, not 481, and the Call removed.
C38_RegisterLeavesCallsAlone ==
    /\ [][RegisterArrives =>
            /\ \A a \in Addresses \ {last'.m.to} :
                registrations'[a] = registrations[a]
            /\ UNCHANGED <<calls, heap, mediaRelays, relays>>]_vars
    /\ [][ByeForCall /\ CalleeUnregistered(last'.m.callId) =>
            /\ Sent(200, Requester)'
            /\ ~Sent(481, Requester)'
            /\ calls'[last'.m.callId] = 0]_vars

\* a REGISTER with expiry 0 has removed the binding of the callee of a Call
\* that the call table holds
C38_Witness ==
    /\ Handled("REGISTER")
    /\ last.m.expires = "0"
    /\ registrations[last.m.to] = None
    /\ \E c \in CallIds :
        /\ calls[c] # 0
        /\ heap[calls[c]].to = last.m.to
        /\ ~heap[calls[c]].isExternal

(***************************************************************************)
(* A first line with fewer than three tokens                                *)
(***************************************************************************)
\* a message whose first line has fewer than three tokens is dispatched
MalformedArrives ==
    /\ last = Idle
    /\ last'.event = "message"
    /\ last'.m.type = "request"
    /\ last'.m.version = Absent

\* C32: a message whose first line cannot be split into three tokens is
\* rejected by parse and dropped: nothing is sent in answer to it, the
\* registrations, the calls and the relays stay as they were, and the server
\* handles the messages that follow.
C32_MalformedDropped ==
    [][MalformedArrives => out' = <<>> /\ UNCHANGED Tables]_vars

(***************************************************************************)
(* Phone numbers                                                            *)
(***************************************************************************)
\* provisionNewESIM() is called
ProvisionCalled == last = Idle /\ last'.event = "provision"

\* the phone number the call that has run took
AllocatedNumber == minted[Len(minted)].profile.msisdn

\* the suffix loadPhoneNumberMappings reads off a phone number
SuffixOf(phone) == ParseIntDigits(Substring(phone, Len(PhoneNumberPrefix)))

\* C37: phone numbers are not allocated twice.  Starting from any loaded
\* map of phone numbers, every call of provisionNewESIM takes a phone number
\* that is not a key of the map when the call is made, and the next suffix is
\* greater than the suffix of every phone number of the map.
C37_PhoneNumbersUnique ==
    /\ [][ProvisionCalled => AllocatedNumber' \notin phoneToProfile]_vars
    /\ [](\A phone \in phoneToProfile :
            SuffixOf(phone) # NaN => nextPhoneNumberSuffix > SuffixOf(phone))

\* a call of provisionNewESIM over a loaded map has added its phone number,
\* one more than the greatest loaded, to the map
C37_Witness ==
    /\ last.event = "provision"
    /\ PhoneNumber(1002) \in phoneToProfile
    /\ AllocatedNumber = PhoneNumber(1003)
    /\ AllocatedNumber \in phoneToProfile

(***************************************************************************)
(* C31  SIPMessage.parse(SIPMessage.create(m)) gives back the message: the  *)
(* same type, the same method and URI of a request, the same status code    *)
(* and reason phrase of a response, the same value under every header name  *)
(* (the names as parse writes them, in lower case) and the same body.       *)
(***************************************************************************)
HeaderMapping(headers) ==
    {[name |-> ToLowerCase(headers[i].name), value |-> headers[i].value] :
        i \in DOMAIN headers}

C31_ParseCreateRoundTrip ==
    parsed # None =>
        /\ parsed.type = message.type
        /\ message.type = "request" =>
              parsed.method = message.method /\ parsed.uri = message.uri
        /\ message.type = "response" =>
              /\ parsed.statusCode = message.statusCode
              /\ parsed.reasonPhrase = message.reasonPhrase
        /\ parsed.headers = HeaderMapping(message.headers)
        /\ parsed.body = message.body

(***************************************************************************)
(* C39  In the IPAddressPool, after any calls of assign and release: no two *)
(* identifiers hold the same address; the last octets assigned and the      *)
(* available list are disjoint, without duplicates, and together are all    *)
(* the octets of the pool; assign for an identifier that holds an address   *)
(* returns that address and changes nothing; assign with no octet available *)
(* throws and changes nothing.                                              *)
(***************************************************************************)
Holders == {i \in Identifiers : assigned[i] # NoAddress}
AssignedOctets == {LastOctet(assigned[i]) : i \in Holders}
AvailableOctets == {available[k] : k \in DOMAIN available}
PoolOctets == FirstOctet..(FirstOctet + PoolLength - 1)

PoolConsistent ==
    /\ \A i, j \in Holders : i # j => assigned[i] # assigned[j]
    /\ AssignedOctets \cap AvailableOctets = {}
    /\ AssignedOctets \cup AvailableOctets = PoolOctets
    /\ Cardinality(AvailableOctets) = Len(available)
    /\ Cardinality(AssignedOctets) = Cardinality(Holders)

AssignCalled == last'.event = "assign"

C39_PoolConsistent ==
    /\ [](last.event \in PoolCalls => PoolConsistent)
    /\ [][AssignCalled /\ assigned[last'.identifier] # NoAddress =>
            /\ ~last'.thrown
            /\ last'.returned = assigned[last'.identifier]
            /\ UNCHANGED <<assigned, available>>]_vars
    /\ [][AssignCalled /\ assigned[last'.identifier] = NoAddress
                       /\ available = <<>> =>
            /\ last'.thrown
            /\ UNCHANGED <<assigned, available>>]_vars
    /\ [][AssignCalled /\ assigned[last'.identifier] = NoAddress
                       /\ available # <<>> =>
            /\ ~last'.thrown
            /\ last'.returned = assigned'[last'.identifier]
            /\ last'.returned # NoAddress]_vars

\* every octet is held, the first of them by the fourth identifier, and an
\* identifier that holds none has asked for one
C39_Witness ==
    /\ last.event = "assign"
    /\ last.thrown
    /\ available = <<>>
    /\ assigned["imsi4"] = IpAddress(FirstOctet)
    /\ assigned["imsi1"] = NoAddress

(***************************************************************************)
(* C40  In the data bridge, whatever the order of connect and disconnect    *)
(* messages and of socket closes: every data session is the session of      *)
(* exactly one client of the client table, and the close of a control       *)
(* connection leaves alone the client entry, the session and the address    *)
(* of an IMSI whose client entry is on another connection.                  *)
(***************************************************************************)
ClientsOfSession(k) ==
    {i \in DOMAIN clients : clients[i] # None /\ clients[i].sessionId = k}

EverySessionHasItsClient ==
    \A k \in SessionIds :
        sessions[k] # None => Cardinality(ClientsOfSession(k)) = 1

OnAnotherConnection(i, socket) ==
    clients[i] # None /\ clients[i].socket # socket

C40_SessionsFollowClients ==
    /\ [](last.event \in BridgeEvents => EverySessionHasItsClient)
    /\ [][last'.event = "socket-close" =>
            \A i \in DOMAIN clients :
                OnAnotherConnection(i, last'.socket) =>
                    /\ clients'[i] = clients[i]
                    /\ sessions'[clients[i].sessionId] =
                           sessions[clients[i].sessionId]
                    /\ assigned'[i] = assigned[i]]_vars

====
